---------------------------- MODULE Spec2Model ----------------------------
(***************************************************************************)
(* A model of the pytools-hardware-control drivers:                        *)
(*   - TTI1604 (dmm.py): the lock-serialised command/response protocol on  *)
(*     the serial link and the decoder of the 10-byte display frame;       *)
(*   - PinRegister (piplate/base.py): the per-category register of pins;   *)
(*   - TektronixScope (scope.py) and DeltaPSU (psu.py): their calls as     *)
(*     operators on the driver's attributes and a transport log;           *)
(*   - Oscilloscope (piplate/daqc2_ocl.py): its setters and sweep threads; *)
(*   - DAQCplate, DAQC2plate (piplate/daqc1.py, daqc2.py): get_<pin>.      *)
(*                                                                         *)
(* Python values are modelled as tagged records: a float is kept as an     *)
(* exact decimal mant * 10^exp (binary64 rounding is not modelled, its     *)
(* overflow to infinity is); a str is a sequence of one-character strings  *)
(* (decoder) or of code points (command echo); bytes are sequences of      *)
(* 0..255.  A call's outcome is Return(v) or Raise(exception name).        *)
(***************************************************************************)
EXTENDS Integers, Sequences, FiniteSets, TLC

\* ------------------------------------------------------------ bounds
\* Threads that call into one TTI1604 instance.
NumThreads == 2
\* Threads that call into one PinRegister.
NumRegThreads == 2
\* Pins held in a PinRegister, all categories together.
MaxHeld == 2
\* The sweep threads one Oscilloscope facade may start.
MaxSweeps == 2
\* Display-segment codes used for the digit bytes of the exhaustive frames.
NumDigitCodes == 4

\* ------------------------------------------------------- Python values
Return(v) == [kind |-> "return", val |-> v]
Raise(e) == [kind |-> "raise", exc |-> e]
NoResult == [kind |-> "none"]

PyBool(b) == [tag |-> "bool", b |-> b]
PyBytes(bs) == [tag |-> "bytes", bytes |-> bs]
PyStr(s) == [tag |-> "str", s |-> s]
PyNone == [tag |-> "None"]

Byte == 0..255

RECURSIVE BitAnd(_, _)
\* Python's a & b on non-negative integers.
BitAnd(a, b) ==
    IF a = 0 \/ b = 0 THEN 0
    ELSE (a % 2) * (b % 2) + 2 * BitAnd(a \div 2, b \div 2)

RECURSIVE Shl(_, _)
\* Python's a << n.
Shl(a, n) == IF n = 0 THEN a ELSE Shl(2 * a, n - 1)

RECURSIVE Shr(_, _)
\* Python's a >> n on non-negative integers.
Shr(a, n) == IF n = 0 THEN a ELSE Shr(a \div 2, n - 1)

\* --------------------------------------------------------- Python float
Digits == {"0", "1", "2", "3", "4", "5", "6", "7", "8", "9"}

DigitVal(c) ==
    CASE c = "0" -> 0 [] c = "1" -> 1 [] c = "2" -> 2 [] c = "3" -> 3
      [] c = "4" -> 4 [] c = "5" -> 5 [] c = "6" -> 6 [] c = "7" -> 7
      [] c = "8" -> 8 [] c = "9" -> 9

RECURSIVE DecVal(_)
\* The integer written by a sequence of digit characters ("" gives 0).
DecVal(s) ==
    IF s = <<>> THEN 0
    ELSE 10 * DecVal(SubSeq(s, 1, Len(s) - 1)) + DigitVal(s[Len(s)])

RECURSIVE NumDigits(_)
NumDigits(n) == IF n < 10 THEN 1 ELSE 1 + NumDigits(n \div 10)

RECURSIVE Pow10(_)
Pow10(n) == IF n = 0 THEN 1 ELSE 10 * Pow10(n - 1)

\* A finite float mant * 10^exp, or an infinity.
PyFloat(neg, inf, mant, exp) ==
    [tag |-> "float", neg |-> neg, inf |-> inf, mant |-> mant, exp |-> exp]

RECURSIVE Normal(_, _)
\* mant * 10^exp with the trailing zeros of mant moved into exp: one
\* representation for each value.
Normal(mant, exp) ==
    IF mant = 0 THEN <<0, 0>>
    ELSE IF mant % 10 = 0 THEN Normal(mant \div 10, exp + 1)
    ELSE <<mant, exp>>

\* binary64 overflow: a decimal of at most five significant digits rounds
\* to infinity exactly when it is at least 1.7977e308 (the largest finite
\* double is 1.7976931348623157e308).
Overflows(mant, exp) ==
    LET nd == NumDigits(mant)
        mag == nd + exp
    IN  /\ mant # 0
        /\ \/ mag > 309
           \/ /\ mag = 309
              /\ nd <= 5
              /\ mant * Pow10(5 - nd) >= 17977

MkFloat(neg, mant, exp) ==
    LET n == Normal(mant, exp)
    IN  IF Overflows(n[1], n[2]) THEN PyFloat(neg, TRUE, 0, 0)
        ELSE PyFloat(neg, FALSE, n[1], n[2])

\* Whether Python's float(s) accepts the string s, over the characters the
\* segment table can produce: [-] digits [. digits] [E digits] with at
\* least one digit in the mantissa.  No table entry gives "I" or "N", so
\* "inf" and "nan" cannot be spelled; "E" is the only letter float() reads.
FloatBody(s) == IF s # <<>> /\ s[1] = "-" THEN SubSeq(s, 2, Len(s)) ELSE s

FloatEPos(b) == {i \in DOMAIN b : b[i] = "E"}

FloatMantissa(b) ==
    IF FloatEPos(b) = {} THEN b
    ELSE SubSeq(b, 1, (CHOOSE i \in FloatEPos(b) : TRUE) - 1)

FloatExponent(b) ==
    IF FloatEPos(b) = {} THEN <<>>
    ELSE SubSeq(b, (CHOOSE i \in FloatEPos(b) : TRUE) + 1, Len(b))

IsFloatLiteral(s) ==
    LET b == FloatBody(s)
        m == FloatMantissa(b)
        x == FloatExponent(b)
    IN  /\ Cardinality(FloatEPos(b)) <= 1
        /\ \A i \in DOMAIN m : m[i] \in Digits \cup {"."}
        /\ Cardinality({i \in DOMAIN m : m[i] = "."}) <= 1
        /\ \E i \in DOMAIN m : m[i] \in Digits
        /\ FloatEPos(b) # {} => x # <<>>
        /\ \A i \in DOMAIN x : x[i] \in Digits

\* float(s) for a string float() accepts.
FloatOf(s) ==
    LET b == FloatBody(s)
        m == FloatMantissa(b)
        x == FloatExponent(b)
        dot == {i \in DOMAIN m : m[i] = "."}
        frac == IF dot = {} THEN 0 ELSE Len(m) - (CHOOSE i \in dot : TRUE)
        ds == SelectSeq(m, LAMBDA c : c \in Digits)
    IN  MkFloat(s # <<>> /\ s[1] = "-", DecVal(ds), DecVal(x) - frac)

\* Python's f * 1000.
Times1000(f) ==
    IF f.inf \/ f.mant = 0 THEN f ELSE MkFloat(f.neg, f.mant, f.exp + 3)


\* -------------------------------------------------- TTI1604: the decoder
\* char[i] of Python (0-based) on a TLA+ sequence.
At(char, i) == char[i + 1]

\* The segment table of parse_number.  Key 256 is in the table as written;
\* no byte has that value.
keys ==
    (252 :> <<"0">>) @@ (253 :> <<"0", ".">>) @@ (96 :> <<"1">>) @@
    (97 :> <<"1", ".">>) @@ (218 :> <<"2">>) @@ (219 :> <<"2", ".">>) @@
    (242 :> <<"3">>) @@ (243 :> <<"3", ".">>) @@ (102 :> <<"4">>) @@
    (103 :> <<"4", ".">>) @@ (182 :> <<"5">>) @@ (183 :> <<"5", ".">>) @@
    (190 :> <<"6">>) @@ (191 :> <<"6", ".">>) @@ (224 :> <<"7">>) @@
    (225 :> <<"7", ".">>) @@ (254 :> <<"8">>) @@ (256 :> <<"8", ".">>) @@
    (230 :> <<"9">>) @@ (231 :> <<"9", ".">>) @@ (238 :> <<"A">>) @@
    (156 :> <<"C">>) @@ (122 :> <<"D">>) @@ (158 :> <<"E">>) @@
    (142 :> <<"F">>) @@ (140 :> <<"R">>) @@ (30 :> <<"T">>) @@
    (124 :> <<"U">>) @@ (28 :> <<"L">>) @@ (0 :> <<>>) @@ (2 :> <<>>)

RECURSIVE DisplayText(_, _)
\* The loop of parse_number over char[ii], ii = from..8: the table's text
\* for each byte the table maps, nothing for the others.
DisplayText(char, from) ==
    IF from > 8 THEN <<>>
    ELSE (IF At(char, from) \in DOMAIN keys THEN keys[At(char, from)] ELSE <<>>)
         \o DisplayText(char, from + 1)

\* parse_number: the display's number, or its text when float() refuses it.
parse_number(char) ==
    IF Len(char) < 9 THEN Raise("IndexError")
    ELSE LET sign == IF BitAnd(At(char, 3), Shl(1, 0)) # 0 THEN <<"-">> ELSE <<>>
             val == sign \o DisplayText(char, 4)
         IN  IF IsFloatLiteral(val) THEN Return(FloatOf(val))
             ELSE Return(PyStr(val))

\* isinstance(val, float)
IsFloat(v) == v.tag = "float"

\* Mutant of parse_number_unit: the lowest range is scaled too.
parse_number_unit_every_range(char) ==
    LET r == parse_number(char)
    IN  IF r.kind = "raise" THEN r
        ELSE LET val == r.val
                 dmm_type == BitAnd(At(char, 1), Shl(1, 3) - 1)
             IN  IF IsFloat(val) /\ dmm_type = 5
                 THEN Return(Times1000(val))
                 ELSE Return(val)

parse_number_unit(char) ==
    LET r == parse_number(char)
    IN  IF r.kind = "raise" THEN r
        ELSE LET val == r.val
                 dmm_range == Shr(BitAnd(At(char, 1), Shl(1, 7) - 1), 4)
                 dmm_type == BitAnd(At(char, 1), Shl(1, 3) - 1)
             IN  IF IsFloat(val) /\ dmm_type = 5 /\ dmm_range # 0
                 THEN Return(Times1000(val))
                 ELSE Return(val)

range_type_info ==
    (1 :> "mV") @@ (2 :> "V") @@ (3 :> "mA") @@ (4 :> "A") @@ (5 :> "Ohm") @@
    (6 :> "Continuity") @@ (7 :> "Diode Test")

range_info ==
    (0 :> "400 Ohm") @@
    (1 :> "4 kOhm / 4 Vac / 4 Vdc / 4 mAdc / 1 mAac") @@
    (2 :> "40 kOhm / 40 Vac / 40 Vdc / 10 Adc / 10 Aac") @@
    (3 :> "400 kOhm / 400 Vac / 400 Vdc / 400 mAdc / 400 mAac / 400 mVdc / 400 mVac") @@
    (4 :> "4 MOhm / 750 Vac / 1000 Vdc") @@
    (5 :> "40 MOhm")

acdc == (0 :> "DC") @@ (1 :> "AC")

\* The marker of a frame that carries data (byte 0).
DataMarker == 13

\* Mutant of NoData: the marker taken to be the line feed.
NoDataLineFeed(char) == At(char, 0) # 10

\* The first test of parse_data: the frame carries no data.
NoData(char) == At(char, 0) # DataMarker

parse_data(char) ==
    IF Len(char) < 1 THEN Raise("IndexError")
    ELSE IF NoData(char) THEN Return(PyBool(FALSE))
    ELSE IF Len(char) < 10 THEN Raise("IndexError")
    ELSE
      LET dmm_type == BitAnd(At(char, 1), Shl(1, 3) - 1)
          dmm_acdc == Shr(BitAnd(At(char, 1), Shl(1, 4) - 1), 3)
          dmm_range == Shr(BitAnd(At(char, 1), Shl(1, 7) - 1), 4)
          val == parse_number_unit(char)
      IN  IF val.kind = "raise" THEN val
          ELSE IF dmm_type \notin DOMAIN range_type_info THEN Raise("KeyError")
          ELSE IF dmm_range \notin DOMAIN range_info THEN Raise("KeyError")
          ELSE Return(
            [tag |-> "dict",
             type |-> range_type_info[dmm_type],
             acdc |-> acdc[dmm_acdc],
             range |-> range_info[dmm_range],
             thold |-> BitAnd(At(char, 2), 1) # 0,
             minmax |-> BitAnd(At(char, 2), Shl(1, 2)) # 0,
             hertz |-> BitAnd(At(char, 2), Shl(1, 4)) # 0,
             null |-> BitAnd(At(char, 2), Shl(1, 5)) # 0,
             auto |-> BitAnd(At(char, 2), Shl(1, 6)) # 0,
             doublebeep |-> BitAnd(At(char, 9), 1) # 0,
             autorange |-> BitAnd(At(char, 9), Shl(1, 2)) # 0,
             contbuzz |-> BitAnd(At(char, 9), Shl(1, 3)) # 0,
             dispmin |-> BitAnd(At(char, 9), Shl(1, 4)) # 0,
             dispmax |-> BitAnd(At(char, 9), Shl(1, 5)) # 0,
             disphold |-> BitAnd(At(char, 9), Shl(1, 6)) # 0,
             gate10sec |-> BitAnd(At(char, 9), Shl(1, 7)) # 0,
             value |-> val.val])

\* ------------------------------------------------------------- state
VARIABLES
    \* TTI1604
    ser,      \* self._ser: "none" (never connected) or "open"
    lock,     \* self._lock: the thread holding it, or Free
    pc,       \* per thread: the statement it is at, "idle" between calls
    op,       \* per thread: the method of its current or last call
    cmd,      \* per thread: the command byte of send_command
    ret,      \* per thread: the bytes its read(10) returned
    result,   \* per thread: how its last call ended
    wire,     \* link operations <<thread, operation>> of the sequence in flight
    \* PinRegister
    pins,     \* self._pins: category -> list of pins
    rlock,    \* self._lock
    rpc,      \* per thread: the statement it is at
    rcall,    \* per thread: the call [op, cat, pin] it is in
    rresult,  \* per thread: how its last call ended
    \* decoder
    frame,    \* the bytes handed to the decoder
    out,      \* the decoder function applied last and what it gave
    \* TektronixScope
    scope,    \* the attributes the driver caches on self
    inst,     \* self._inst: the instrument and what it answers
    scall,    \* the last call: method, arguments, transport log, outcome
    \* DeltaPSU
    psu,      \* self._serial and self._lock
    pcall,    \* the last call: method, arguments, transport log, outcome
    \* DAQC2 Oscilloscope facade
    osc,      \* the attributes of the facade
    board,    \* what the board library was last told
    sweeps,   \* per sweep thread: "unborn", the statement it is at, "done"
    opc,      \* the client thread: "idle" or the statement of disable()
    ocall,    \* the client's last call: method, argument, outcome
    \* DAQCplate, DAQC2plate (the PinRegister is pins)
    plate,    \* the class of the plate
    gcall,    \* the last get_<category> call and its outcome
    issued    \* the <<category, pin>> for which a call returned a pin object

dmmVars == <<ser, lock, pc, op, cmd, ret, result, wire>>
regVars == <<pins, rlock, rpc, rcall, rresult>>
decVars == <<frame, out>>
scopeVars == <<scope, inst, scall>>
psuVars == <<psu, pcall>>
oscVars == <<osc, board, sweeps, opc, ocall>>
plateVars == <<plate, gcall, issued>>
vars == <<dmmVars, regVars, decVars, scopeVars, psuVars, oscVars, plateVars>>

\* ------------------------------------------------ decoder: the frames
\* Segment codes for the digit bytes, in the order they are taken into the
\* exhaustive frames: "0", "4.", "E", an entry with no text, "1", a byte the
\* table does not map, "L", "9".
DigitCodeList == <<252, 103, 158, 0, 96, 255, 28, 230>>

DigitCodes == {DigitCodeList[i] : i \in 1..NumDigitCodes}

\* Byte 1 for a type code (bits 0-2), AC/DC (bit 3) and range code (bits 4-6).
TypeByte(type, ac, range) == type + 8 * ac + 16 * range

\* Displays: "4.00", "1.234", "0L", blank, "1E308", "9E999", unmapped
\* bytes only, "4.0.0" (two points).
DigitPatterns ==
    { <<103, 252, 252, 0, 0>>, <<97, 218, 242, 102, 0>>, <<0, 252, 28, 0, 0>>,
      <<0, 0, 0, 0, 0>>, <<96, 158, 242, 252, 254>>, <<230, 158, 230, 230, 230>>,
      <<255, 1, 3, 255, 129>>, <<103, 253, 252, 2, 0>> }

MkFrame(b0, b1, b2, b3, digits, b9) == <<b0, b1, b2, b3>> \o digits \o <<b9>>

\* Every byte 1, both signs, the displays above.
HeaderFrames ==
    { MkFrame(DataMarker, b1, 0, b3, d, 0) :
        b1 \in Byte, b3 \in {0, 1}, d \in DigitPatterns }

\* Frames that carry no data: byte 0 is not the marker.
NoDataFrames ==
    { MkFrame(b0, b1, 0, b3, d, b9) :
        b0 \in {0, 10, 12, 14, 255}, b1 \in {0, TypeByte(5, 0, 2)},
        b3 \in {0, 1}, d \in DigitPatterns, b9 \in {0, 255} }

\* The flag bytes 2 and 9: each flag bit alone, none, all, and the bits
\* that are no flag.
FlagFrames ==
    { MkFrame(DataMarker, b1, b2, b3, <<103, 252, 252, 0, 0>>, b9) :
        b1 \in {TypeByte(5, 0, 2), TypeByte(1, 1, 0)},
        b2 \in {0, 1, 4, 16, 32, 64, 117, 138, 255},
        b3 \in {0, 1, 254},
        b9 \in {0, 1, 2, 4, 8, 16, 32, 64, 128, 255} }

\* Every display of five digit bytes over DigitCodes.
DigitFrames ==
    { MkFrame(DataMarker, b1, 0, b3, <<d4, d5, d6, d7, d8>>, 0) :
        b1 \in {TypeByte(5, 0, 2), TypeByte(5, 0, 0), TypeByte(2, 0, 2)},
        b3 \in {0, 1},
        d4 \in DigitCodes, d5 \in DigitCodes, d6 \in DigitCodes,
        d7 \in DigitCodes, d8 \in DigitCodes }

\* What read(10) gives when fewer than 10 bytes arrive in time.
ShortFrames ==
    { SubSeq(f, 1, n) :
        f \in { MkFrame(DataMarker, TypeByte(5, 0, 2), 0, 0, <<103, 252, 252, 0, 0>>, 0),
                MkFrame(0, TypeByte(5, 0, 2), 0, 0, <<103, 252, 252, 0, 0>>, 0) },
        n \in 0..9 }

Frames == HeaderFrames \cup NoDataFrames \cup FlagFrames \cup DigitFrames \cup ShortFrames

\* ------------------------------------------- TTI1604: command/response
Threads == 1..NumThreads

\* The lock when no thread holds it.
Free == 0

\* Commands sent: b"a" (key up) and b"\x80", a byte that is no ASCII.
Commands == { <<97>>, <<128>> }

\* What read(10) gives after a command: nothing, the echo, another byte,
\* the echo twice, ten bytes.
EchoResponses(command) ==
    { <<>>, command, <<(command[1] + 1) % 256>>, command \o command,
      [i \in 1..10 |-> command[1]] }

\* What read(10) gives to read_data: nothing, "4.00" kOhm, a frame without
\* the marker, a frame of type code 0, four bytes.
DeviceFrames ==
    { <<>>,
      MkFrame(DataMarker, TypeByte(5, 0, 2), 0, 0, <<103, 252, 252, 0, 0>>, 0),
      MkFrame(0, TypeByte(5, 0, 2), 0, 0, <<103, 252, 252, 0, 0>>, 0),
      MkFrame(DataMarker, TypeByte(0, 0, 0), 0, 0, <<103, 252, 252, 0, 0>>, 0),
      <<DataMarker, TypeByte(5, 0, 2), 0, 0>> }

IsCont(b) == b \in 128..191

RECURSIVE Utf8Decode(_)
\* bytes.decode(): the code points of a well-formed UTF-8 sequence, or
\* ok = FALSE where Python raises UnicodeDecodeError.
Utf8Decode(bs) ==
    IF bs = <<>> THEN [ok |-> TRUE, s |-> <<>>]
    ELSE
      LET b1 == bs[1]
          n == CASE b1 < 128 -> 1
                 [] b1 \in 194..223 -> 2
                 [] b1 \in 224..239 -> 3
                 [] b1 \in 240..244 -> 4
                 [] OTHER -> 0
          wellFormed ==
              /\ n > 0
              /\ Len(bs) >= n
              /\ \A i \in 2..n : IsCont(bs[i])
              /\ b1 = 224 => bs[2] >= 160
              /\ b1 = 237 => bs[2] <= 159
              /\ b1 = 240 => bs[2] >= 144
              /\ b1 = 244 => bs[2] <= 143
          cp == CASE n = 1 -> b1
                  [] n = 2 -> (b1 - 192) * 64 + (bs[2] - 128)
                  [] n = 3 -> (b1 - 224) * 4096 + (bs[2] - 128) * 64 + (bs[3] - 128)
                  [] n = 4 -> (b1 - 240) * 262144 + (bs[2] - 128) * 4096
                              + (bs[3] - 128) * 64 + (bs[4] - 128)
      IN  IF ~wellFormed THEN [ok |-> FALSE, s |-> <<>>]
          ELSE LET rest == Utf8Decode(SubSeq(bs, n + 1, Len(bs)))
               IN  [ok |-> rest.ok, s |-> <<cp>> \o rest.s]

\* send_command after its read: ret becomes chr(ret[0]) when one byte came,
\* and is compared with command.decode().  A str (code points) never equals
\* a bytes object.
CommandCheck(command, r) ==
    LET echo == IF Len(r) = 1 THEN PyStr(<<r[1]>>) ELSE PyBytes(r)
        dec == Utf8Decode(command)
    IN  IF ~dec.ok THEN Raise("UnicodeDecodeError")
        ELSE Return(PyBool(echo = PyStr(dec.s)))

\* The property is_connected.
is_connected == ser = "open"

\* The variables of the other components, which no TTI1604 step changes.
DmmOnly == UNCHANGED <<regVars, decVars, scopeVars, psuVars, oscVars, plateVars>>

DmmInit ==
    /\ ser \in {"none", "open"}
    /\ lock = Free
    /\ pc = [t \in Threads |-> "idle"]
    /\ op = [t \in Threads |-> "none"]
    /\ cmd = [t \in Threads |-> <<>>]
    /\ ret = [t \in Threads |-> <<>>]
    /\ result = [t \in Threads |-> NoResult]
    /\ wire = <<>>

\* connect(): opens the link unless it is open.
connect ==
    /\ ser' = "open"
    /\ UNCHANGED <<lock, pc, op, cmd, ret, result, wire>>
    /\ DmmOnly

\* A thread enters send_command(command).
CallSendCommand(t, command) ==
    /\ pc[t] = "idle"
    /\ pc' = [pc EXCEPT ![t] = "sc_acquire"]
    /\ op' = [op EXCEPT ![t] = "send_command"]
    /\ cmd' = [cmd EXCEPT ![t] = command]
    /\ ret' = [ret EXCEPT ![t] = <<>>]
    /\ result' = [result EXCEPT ![t] = NoResult]
    /\ UNCHANGED <<ser, lock, wire>>
    /\ DmmOnly

\* A thread enters read_data(), get_complete_state() or get_value().
CallRead(t, method) ==
    /\ pc[t] = "idle"
    /\ pc' = [pc EXCEPT ![t] = IF method = "read_data" THEN "rd_connected"
                                ELSE "gs_connected"]
    /\ op' = [op EXCEPT ![t] = method]
    /\ cmd' = [cmd EXCEPT ![t] = <<>>]
    /\ ret' = [ret EXCEPT ![t] = <<>>]
    /\ result' = [result EXCEPT ![t] = NoResult]
    /\ UNCHANGED <<ser, lock, wire>>
    /\ DmmOnly

\* The call of t ends by raising exc; nothing is released.
Raises(t, exc) ==
    /\ result' = [result EXCEPT ![t] = Raise(exc)]
    /\ pc' = [pc EXCEPT ![t] = "idle"]
    /\ ret' = [ret EXCEPT ![t] = <<>>]

\* Mutant of AcquireLock: the call goes on whether or not the lock is free.
AcquireLockUnguarded(t, next) ==
    /\ lock' = t
    /\ pc' = [pc EXCEPT ![t] = next]
    /\ UNCHANGED <<ser, op, cmd, ret, result, wire>>
    /\ DmmOnly

\* self._lock.acquire(timeout=timeout) gives True: the lock was free.
AcquireLock(t, next) ==
    /\ lock = Free
    /\ lock' = t
    /\ pc' = [pc EXCEPT ![t] = next]
    /\ UNCHANGED <<ser, op, cmd, ret, result, wire>>
    /\ DmmOnly

\* Mutant of AcquireTimedOut: the failed call releases the lock it never got.
AcquireTimedOutReleases(t) ==
    /\ lock # Free
    /\ lock' = Free
    /\ Raises(t, "TimeoutError")
    /\ UNCHANGED <<ser, op, cmd, wire>>
    /\ DmmOnly

\* self._lock.acquire(timeout=timeout) gives False: the lock stayed held
\* for the whole timeout, and the call raises TimeoutError.
AcquireTimedOut(t) ==
    /\ lock # Free
    /\ Raises(t, "TimeoutError")
    /\ UNCHANGED <<ser, lock, op, cmd, wire>>
    /\ DmmOnly

\* One operation of the thread on self._ser that succeeds.
LinkOp(t, name, next) ==
    /\ ser = "open"
    /\ wire' = Append(wire, <<t, name>>)
    /\ pc' = [pc EXCEPT ![t] = next]
    /\ UNCHANGED <<ser, lock, op, cmd, ret, result>>
    /\ DmmOnly

LinkPcs ==
    {"sc_reset_in", "sc_reset_out", "sc_write", "sc_read",
     "rd_reset_in", "rd_reset_out", "rd_read"}

\* The operation the thread is at fails in the serial library (the device
\* was unplugged): SerialException leaves the call where it stands.
LinkFails(t) ==
    /\ pc[t] \in LinkPcs
    /\ ser = "open"
    /\ Raises(t, "SerialException")
    /\ wire' = <<>>
    /\ UNCHANGED <<ser, lock, op, cmd>>
    /\ DmmOnly

\* send_command: the lock.
SendCommandAcquire(t) == pc[t] = "sc_acquire" /\ AcquireLock(t, "sc_reset_in")

SendCommandTimeout(t) == pc[t] = "sc_acquire" /\ AcquireTimedOut(t)

\* send_command on a driver that never connected: self._ser is None.
SendCommandNoLink(t) ==
    /\ pc[t] = "sc_reset_in"
    /\ ser = "none"
    /\ Raises(t, "AttributeError")
    /\ UNCHANGED <<ser, lock, op, cmd, wire>>
    /\ DmmOnly

SendCommandResetIn(t) == pc[t] = "sc_reset_in" /\ LinkOp(t, "reset_input_buffer", "sc_reset_out")

SendCommandResetOut(t) == pc[t] = "sc_reset_out" /\ LinkOp(t, "reset_output_buffer", "sc_write")

SendCommandWrite(t) == pc[t] = "sc_write" /\ LinkOp(t, "write", "sc_read")

\* ret = self._ser.read(10), after the settle sleep.
SendCommandRead(t) ==
    /\ pc[t] = "sc_read"
    /\ ser = "open"
    /\ \E r \in EchoResponses(cmd[t]) : ret' = [ret EXCEPT ![t] = r]
    /\ wire' = Append(wire, <<t, "read">>)
    /\ pc' = [pc EXCEPT ![t] = "sc_check"]
    /\ UNCHANGED <<ser, lock, op, cmd, result>>
    /\ DmmOnly

\* send_command from the check of the echo to its end: the lock is
\* released on the way to return, which a raised exception never reaches.
SendCommandCheck(t) ==
    /\ pc[t] = "sc_check"
    /\ LET r == CommandCheck(cmd[t], ret[t])
       IN  /\ result' = [result EXCEPT ![t] = r]
           /\ lock' = IF r.kind = "return" THEN Free ELSE lock
    /\ pc' = [pc EXCEPT ![t] = "idle"]
    /\ ret' = [ret EXCEPT ![t] = <<>>]
    /\ wire' = <<>>
    /\ UNCHANGED <<ser, op, cmd>>
    /\ DmmOnly

\* get_complete_state / get_value: the check before read_data is called.
GetConnected(t) ==
    /\ pc[t] = "gs_connected"
    /\ IF is_connected
       THEN /\ pc' = [pc EXCEPT ![t] = "rd_connected"]
            /\ UNCHANGED <<ret, result>>
       ELSE Raises(t, "ConnectionError")
    /\ UNCHANGED <<ser, lock, op, cmd, wire>>
    /\ DmmOnly

\* Mutant of ReadDataConnected: read_data without its connection check.
ReadDataUnchecked(t) ==
    /\ pc[t] = "rd_connected"
    /\ pc' = [pc EXCEPT ![t] = "rd_acquire"]
    /\ UNCHANGED <<ser, lock, op, cmd, ret, result, wire>>
    /\ DmmOnly

\* read_data: its own check.
ReadDataConnected(t) ==
    /\ pc[t] = "rd_connected"
    /\ IF is_connected
       THEN /\ pc' = [pc EXCEPT ![t] = "rd_acquire"]
            /\ UNCHANGED <<ret, result>>
       ELSE Raises(t, "ConnectionError")
    /\ UNCHANGED <<ser, lock, op, cmd, wire>>
    /\ DmmOnly

ReadDataAcquire(t) == pc[t] = "rd_acquire" /\ AcquireLock(t, "rd_reset_in")

ReadDataTimeout(t) == pc[t] = "rd_acquire" /\ AcquireTimedOut(t)

ReadDataResetIn(t) == pc[t] = "rd_reset_in" /\ LinkOp(t, "reset_input_buffer", "rd_reset_out")

ReadDataResetOut(t) == pc[t] = "rd_reset_out" /\ LinkOp(t, "reset_output_buffer", "rd_read")

\* value = self._ser.read(10); release; return value.  The caller is the
\* client (read_data) or get_complete_state / get_value, which decode it.
ReadDataRead(t) ==
    /\ pc[t] = "rd_read"
    /\ ser = "open"
    /\ \E f \in DeviceFrames :
         IF op[t] = "read_data"
         THEN /\ result' = [result EXCEPT ![t] = Return(PyBytes(f))]
              /\ pc' = [pc EXCEPT ![t] = "idle"]
              /\ ret' = ret
         ELSE /\ ret' = [ret EXCEPT ![t] = f]
              /\ pc' = [pc EXCEPT ![t] = "gs_parse"]
              /\ result' = result
    /\ lock' = Free
    /\ wire' = <<>>
    /\ UNCHANGED <<ser, op, cmd>>
    /\ DmmOnly

\* get_complete_state / get_value: the decoding of what read_data gave.
GetParse(t) ==
    /\ pc[t] = "gs_parse"
    /\ result' = [result EXCEPT ![t] =
                    IF op[t] = "get_value" THEN parse_number_unit(ret[t])
                    ELSE parse_data(ret[t])]
    /\ pc' = [pc EXCEPT ![t] = "idle"]
    /\ ret' = [ret EXCEPT ![t] = <<>>]
    /\ UNCHANGED <<ser, lock, op, cmd, wire>>
    /\ DmmOnly

DmmNext ==
    \/ connect
    \/ \E t \in Threads :
         \/ \E c \in Commands : CallSendCommand(t, c)
         \/ \E m \in {"read_data", "get_complete_state", "get_value"} : CallRead(t, m)
         \/ SendCommandAcquire(t)
         \/ SendCommandTimeout(t)
         \/ SendCommandNoLink(t)
         \/ SendCommandResetIn(t)
         \/ SendCommandResetOut(t)
         \/ SendCommandWrite(t)
         \/ SendCommandRead(t)
         \/ SendCommandCheck(t)
         \/ GetConnected(t)
         \/ ReadDataConnected(t)
         \/ ReadDataAcquire(t)
         \/ ReadDataTimeout(t)
         \/ ReadDataResetIn(t)
         \/ ReadDataResetOut(t)
         \/ ReadDataRead(t)
         \/ GetParse(t)
         \/ LinkFails(t)

\* --------------------------------------------------------- PinRegister
RegThreads == 1..NumRegThreads

Categories == {"digital_inputs", "digital_outputs", "analog_inputs", "analog_outputs"}

\* self._digital_inputs, self._digital_outputs, self._analog_inputs and
\* self._analog_outputs: the highest pin of each category.
digital_inputs == 7
digital_outputs == 7
analog_inputs == 7
analog_outputs == 3

\* The range a register_* method accepts.
PinLow(cat) == IF cat = "analog_outputs" THEN 1 ELSE 0

PinHigh(cat) ==
    CASE cat = "digital_inputs" -> digital_inputs
      [] cat = "digital_outputs" -> digital_outputs
      [] cat = "analog_inputs" -> analog_inputs
      [] cat = "analog_outputs" -> analog_outputs

\* Pin numbers the callers pass: the low edge, inside every range, above
\* the analog outputs, above every range.
PinArgs == {0, 3, 4, 8}

NoCall == [op |-> "none"]

RECURSIVE SeqSum(_)
SeqSum(s) == IF s = <<>> THEN 0 ELSE Head(s) + SeqSum(Tail(s))

\* Pins held, all categories together, and registrations under way.
Held ==
    LET c == <<"digital_inputs", "digital_outputs", "analog_inputs", "analog_outputs">>
    IN  SeqSum([i \in 1..4 |-> Len(pins[c[i]])])

Registering == Cardinality({t \in RegThreads : rpc[t] \in {"reg_check", "reg_lock", "reg_append"}})

RECURSIVE ListRemove(_, _)
\* list.remove(x) on a list that holds x: the first x goes.
ListRemove(l, x) ==
    IF l = <<>> THEN <<>>
    ELSE IF Head(l) = x THEN Tail(l)
    ELSE <<Head(l)>> \o ListRemove(Tail(l), x)

InList(x, l) == \E i \in DOMAIN l : l[i] = x

RegOnly == UNCHANGED <<dmmVars, decVars, scopeVars, psuVars, oscVars, plateVars>>

RegInit ==
    /\ pins = [c \in Categories |-> <<>>]
    /\ rlock = Free
    /\ rpc = [t \in RegThreads |-> "idle"]
    /\ rcall = [t \in RegThreads |-> NoCall]
    /\ rresult = [t \in RegThreads |-> NoResult]

\* Mutant of RegisterAccepts: one list of pins for all categories.
RegisterAcceptsShared(cat, pin) ==
    /\ PinLow(cat) <= pin /\ pin <= PinHigh(cat)
    /\ \A c \in Categories : ~InList(pin, pins[c])

\* The two checks of register_<cat>, made before the lock is taken.
RegisterAccepts(cat, pin) ==
    /\ PinLow(cat) <= pin /\ pin <= PinHigh(cat)
    /\ ~InList(pin, pins[cat])

\* A thread enters register_<cat>(pin).  The model stops new registrations
\* that would succeed once MaxHeld pins are held or on their way.
CallRegister(t, cat, pin) ==
    /\ rpc[t] = "idle"
    /\ Held + Registering < MaxHeld \/ ~RegisterAccepts(cat, pin)
    /\ rpc' = [rpc EXCEPT ![t] = "reg_check"]
    /\ rcall' = [rcall EXCEPT ![t] = [op |-> "register", cat |-> cat, pin |-> pin]]
    /\ rresult' = [rresult EXCEPT ![t] = NoResult]
    /\ UNCHANGED <<pins, rlock>>
    /\ RegOnly

\* A thread enters unregister_<cat>(pin).
CallUnregister(t, cat, pin) ==
    /\ rpc[t] = "idle"
    /\ rpc' = [rpc EXCEPT ![t] = "unreg_lock"]
    /\ rcall' = [rcall EXCEPT ![t] = [op |-> "unregister", cat |-> cat, pin |-> pin]]
    /\ rresult' = [rresult EXCEPT ![t] = NoResult]
    /\ UNCHANGED <<pins, rlock>>
    /\ RegOnly

\* The ValueError a register_<cat> raises: the range is tested first.
RegisterError(cat, pin) ==
    IF ~(PinLow(cat) <= pin /\ pin <= PinHigh(cat))
    THEN Raise("ValueError: Invalid pin")
    ELSE Raise("ValueError: Pin is already registered")

\* A call that ended keeps no arguments.
RegisterCheck(t) ==
    /\ rpc[t] = "reg_check"
    /\ IF RegisterAccepts(rcall[t].cat, rcall[t].pin)
       THEN /\ rpc' = [rpc EXCEPT ![t] = "reg_lock"]
            /\ UNCHANGED <<rresult, rcall>>
       ELSE /\ rresult' = [rresult EXCEPT ![t] = RegisterError(rcall[t].cat, rcall[t].pin)]
            /\ rpc' = [rpc EXCEPT ![t] = "idle"]
            /\ rcall' = [rcall EXCEPT ![t] = NoCall]
    /\ UNCHANGED <<pins, rlock>>
    /\ RegOnly

\* with self._lock: entered once the lock is free.
RegisterLock(t) ==
    /\ rpc[t] = "reg_lock"
    /\ rlock = Free
    /\ rlock' = t
    /\ rpc' = [rpc EXCEPT ![t] = "reg_append"]
    /\ UNCHANGED <<pins, rcall, rresult>>
    /\ RegOnly

\* self._pins[cat].append(pin), and the with block is left.
RegisterAppend(t) ==
    /\ rpc[t] = "reg_append"
    /\ pins' = [pins EXCEPT ![rcall[t].cat] = Append(@, rcall[t].pin)]
    /\ rlock' = Free
    /\ rresult' = [rresult EXCEPT ![t] = Return(PyNone)]
    /\ rpc' = [rpc EXCEPT ![t] = "idle"]
    /\ rcall' = [rcall EXCEPT ![t] = NoCall]
    /\ RegOnly

UnregisterLock(t) ==
    /\ rpc[t] = "unreg_lock"
    /\ rlock = Free
    /\ rlock' = t
    /\ rpc' = [rpc EXCEPT ![t] = "unreg_remove"]
    /\ UNCHANGED <<pins, rcall, rresult>>
    /\ RegOnly

\* self._pins[cat].remove(pin): ValueError when the list has no such pin;
\* the with block releases the lock either way.
UnregisterRemove(t) ==
    /\ rpc[t] = "unreg_remove"
    /\ IF InList(rcall[t].pin, pins[rcall[t].cat])
       THEN /\ pins' = [pins EXCEPT ![rcall[t].cat] = ListRemove(@, rcall[t].pin)]
            /\ rresult' = [rresult EXCEPT ![t] = Return(PyNone)]
       ELSE /\ pins' = pins
            /\ rresult' = [rresult EXCEPT ![t] = Raise("ValueError: x not in list")]
    /\ rlock' = Free
    /\ rpc' = [rpc EXCEPT ![t] = "idle"]
    /\ rcall' = [rcall EXCEPT ![t] = NoCall]
    /\ RegOnly

RegStep(t) ==
    \/ \E c \in Categories, p \in PinArgs : CallRegister(t, c, p)
    \/ \E c \in Categories, p \in PinArgs : CallUnregister(t, c, p)
    \/ RegisterCheck(t)
    \/ RegisterLock(t)
    \/ RegisterAppend(t)
    \/ UnregisterLock(t)
    \/ UnregisterRemove(t)

\* Any thread steps: calls overlap.
RegNext == \E t \in RegThreads : RegStep(t)

\* The register used from one thread: every call is made by thread 1.
RegSeqNext == RegStep(1)

\* --------------------------------------------- decoder: the functions
DecOnly == UNCHANGED <<dmmVars, regVars, scopeVars, psuVars, oscVars, plateVars>>

DecInit ==
    /\ frame \in Frames
    /\ out = [fn |-> "none"]

ApplyParseNumber ==
    /\ out' = [fn |-> "parse_number", res |-> parse_number(frame)]
    /\ UNCHANGED frame
    /\ DecOnly

ApplyParseNumberUnit ==
    /\ out' = [fn |-> "parse_number_unit", res |-> parse_number_unit(frame)]
    /\ UNCHANGED frame
    /\ DecOnly

ApplyParseData ==
    /\ out' = [fn |-> "parse_data", res |-> parse_data(frame)]
    /\ UNCHANGED frame
    /\ DecOnly

DecNext == ApplyParseNumber \/ ApplyParseNumberUnit \/ ApplyParseData

\* ------------------------------------------- TektronixScope: the values
\* An attribute the object does not have (hasattr is false).
Unset == [tag |-> "unset"]

PyInt(n) == [tag |-> "int", n |-> n]

\* isinstance(v, numbers.Number); bool is a subclass of int.
IsNumber(v) == v.tag \in {"int", "float", "bool"}

\* isinstance(v, str)
IsStr(v) == v.tag = "str"

DigitChar(n) == CHOOSE c \in Digits : DigitVal(c) = n

RECURSIVE NatText(_)
NatText(n) ==
    IF n < 10 THEN <<DigitChar(n)>>
    ELSE NatText(n \div 10) \o <<DigitChar(n % 10)>>

\* str(n) of an int.
IntText(n) == IF n < 0 THEN <<"-">> \o NatText(-n) ELSE NatText(n)

\* Python's int(a / b) on exact values: the quotient cut toward zero.
TruncDiv(a, b) ==
    LET aa == IF a < 0 THEN -a ELSE a
        bb == IF b < 0 THEN -b ELSE b
    IN  IF (a < 0) = (b < 0) THEN aa \div bb ELSE -(aa \div bb)

\* A number as Mant * 10^Exp with integers Mant and Exp.
Mant(v) ==
    CASE v.tag = "int" -> v.n
      [] v.tag = "bool" -> IF v.b THEN 1 ELSE 0
      [] v.tag = "float" -> IF v.neg THEN -v.mant ELSE v.mant

Exp(v) == IF v.tag = "float" THEN v.exp ELSE 0

\* The number v in units of 10^e, for e <= Exp(v).
Scaled(v, e) == Mant(v) * Pow10(Exp(v) - e)

\* The least exponent of the numbers vs, and none above 0.
UnitExp(vs) ==
    LET es == {Exp(vs[i]) : i \in DOMAIN vs} \cup {0}
    IN  CHOOSE e \in es : \A f \in es : e <= f

\* int(v) of a number, which is also what "%i" % v prints.
IntOfNumber(v) ==
    LET e == UnitExp(<<v>>) IN TruncDiv(Scaled(v, e), Pow10(-e))

\* v > w for two numbers.
NumberGreater(v, w) ==
    LET e == UnitExp(<<v, w>>) IN Scaled(v, e) > Scaled(w, e)

\* v == w for two numbers (1 == 1.0 == True in Python).
NumberEqual(v, w) ==
    LET e == UnitExp(<<v, w>>) IN Scaled(v, e) = Scaled(w, e)

\* Whether int(s) accepts the text s: [-] digits.
IsIntLiteral(s) ==
    LET b == FloatBody(s)
    IN  /\ b # <<>>
        /\ \A i \in DOMAIN b : b[i] \in Digits

\* int(s) for a text int() accepts.
IntOf(s) ==
    IF s[1] = "-" THEN -DecVal(FloatBody(s)) ELSE DecVal(s)

\* s.lower() over the letters the permitted sets are written with; a text
\* is a sequence of one-character strings.
LowerChar(c) ==
    CASE c = "A" -> "a" [] c = "C" -> "c" [] c = "D" -> "d" [] c = "E" -> "e"
      [] c = "F" -> "f" [] c = "G" -> "g" [] c = "I" -> "i" [] c = "M" -> "m"
      [] c = "N" -> "n" [] c = "S" -> "s" [] c = "T" -> "t" [] c = "V" -> "v"
      [] c = "X" -> "x" [] c = "Y" -> "y"
      [] OTHER -> c

Lower(s) == [i \in DOMAIN s |-> LowerChar(s[i])]

\* str(f) of a finite float with a magnitude in [1e-4, 1e16), which Python
\* writes without an exponent.
FloatText(f) ==
    LET scale == IF f.exp < 0 THEN Pow10(-f.exp) ELSE 1
        whole == IF f.exp < 0 THEN f.mant \div scale ELSE f.mant * Pow10(f.exp)
        frac == IF f.exp < 0 THEN NatText(f.mant % scale) ELSE <<"0">>
        width == IF f.exp < 0 THEN -f.exp ELSE 1
        pad == [i \in 1..(width - Len(frac)) |-> "0"]
    IN  (IF f.neg THEN <<"-">> ELSE <<>>)
        \o NatText(whole) \o <<".">> \o pad \o frac

\* str(v), as "%s" and "{}" print a value.
Str(v) ==
    CASE v.tag = "int" -> IntText(v.n)
      [] v.tag = "bool" -> IF v.b THEN <<"True">> ELSE <<"False">>
      [] v.tag = "float" -> FloatText(v)
      [] v.tag = "str" -> v.s
      [] v.tag = "None" -> <<"None">>

\* ------------------------------------- TektronixScope: the instrument
\* The instrument session is the driver's collaborator: it answers a query
\* with a text.  A text is a sequence of one-character strings, except that
\* the literal part of a command is kept as one piece and the settings dump
\* is kept as the sequence of its ";"-separated entries, each entry being
\* the pieces a split at its first blank gives.
ChannelText(k) == <<"C", "H">> \o IntText(k)

\* The answer to SET? of an instrument with nch channels.
SetupText(nch) ==
    <<<<":HEADER", "1">>>> \o
    [k \in 1..nch |-> <<<<":">> \o ChannelText(k) \o <<":SCA">>, "1.0E0">>]

\* The settings key number_of_channel looks for.
Ch4Key == <<":">> \o ChannelText(4) \o <<":SCA">>

InstrumentOf(nch, on, xzero, xin, stop) ==
    [setup |-> SetupText(nch),
     sel |-> on,
     data_start |-> <<"1">>,
     data_stop |-> stop,
     recordlength |-> <<"2", "0">>,
     xzero |-> xzero,
     xin |-> xin,
     ymult |-> <<"0", ".", "5">>,
     yoff |-> <<"2", ".", "0">>,
     curve |-> <<35, 49, 52, 0, 1, 255, 254, 10>>]

\* Horizontal settings <<zero, sampling interval, stop index>>: a zero of
\* -1.0 with an interval of 0.5 and the stop index left at 10, or a zero of
\* 0.0 with an interval of 0.25 and the stop index at the record length
\* (the times are exact in binary64, as are the quotients taken of them).
HorizontalSettings ==
    {<<<<"-", "1", ".", "0">>, <<"0", ".", "5">>, <<"1", "0">>>>,
     <<<<"0", ".", "0">>, <<"0", ".", "2", "5">>, <<"2", "0">>>>}

\* The instruments of the model: 2 or 4 channels, channel 1 enabled or
\* not, either horizontal setting.
Instruments ==
    {InstrumentOf(nch, on, h[1], h[2], h[3]) :
        nch \in {2, 4},
        on \in {{}, {ChannelText(1)}},
        h \in HorizontalSettings}

\* What the instrument answers to a query.
Response(instr, c) ==
    CASE c = <<"SET?">> -> instr.setup
      [] c[1] = "SEL:" ->
            IF SubSeq(c, 2, Len(c) - 1) \in instr.sel THEN <<"1">> ELSE <<"0">>
      [] c = <<"DATA:START?">> -> instr.data_start
      [] c = <<"DATA:STOP?">> -> instr.data_stop
      [] c = <<"horizontal:recordlength?">> -> instr.recordlength
      [] c = <<"WFMO:XIN?">> -> instr.xin
      [] c = <<"WFMO:XZERO?">> -> instr.xzero
      [] c = <<"WFMO:YMUlt?">> -> instr.ymult
      [] c = <<"WFMO:YOFf?">> -> instr.yoff
      [] OTHER -> <<>>

\* ----------------------------------------- TektronixScope: the driver
\* The attributes of a driver right after __init__: none of the cached ones.
NewScope ==
    [dico |-> Unset, first_read |-> Unset, data_start |-> Unset,
     data_stop |-> Unset, offset |-> Unset, scale |-> Unset,
     x_0 |-> Unset, delta_x |-> Unset]

\* A call in progress: the driver's attributes, the instrument, the
\* transport operations made so far, the exception raised ("" for none),
\* the value of the last expression and, in read_data_one_channel, the
\* local variables <<data_start, data_stop>> once they are resolved.
Machine(obj, instr) ==
    [self |-> obj, inst |-> instr, log |-> <<>>, exc |-> "", ret |-> PyNone,
     window |-> Unset]

Failed(m) == m.exc # ""
Throw(m, e) == [m EXCEPT !.exc = e]
Give(m, v) == [m EXCEPT !.ret = v]

\* Statement sequencing: an exception skips what follows.
Then(m, F(_)) == IF Failed(m) THEN m ELSE F(m)

\* self._inst.write(cmd)
_write(m, c) ==
    [m EXCEPT !.log = Append(@, <<"write", c>>), !.ret = PyNone]

\* self.write: the class defines _write, ask and ask_raw and no write, so
\* the attribute lookup raises before the command text is built.
write(m, c) == Throw(m, "AttributeError")

\* self._inst.ask(cmd)
ask(m, c) ==
    [m EXCEPT !.log = Append(@, <<"ask", c>>),
              !.ret = PyStr(Response(m.inst, c))]

\* float(self.ask(cmd))
AskFloat(m, c) ==
    LET m1 == ask(m, c)
    IN  IF IsFloatLiteral(m1.ret.s) THEN Give(m1, FloatOf(m1.ret.s))
        ELSE Throw(m1, "ValueError")

\* int(self.ask(cmd))
AskInt(m, c) ==
    LET m1 == ask(m, c)
    IN  IF IsIntLiteral(m1.ret.s) THEN Give(m1, PyInt(IntOf(m1.ret.s)))
        ELSE Throw(m1, "ValueError")

set_horizontal_scale(m, val) ==
    IF ~IsNumber(val) THEN Throw(m, "TektronixScopeError")
    ELSE _write(m, <<"HORizontal:SCAle ">> \o Str(val))

\* l.split(";")[1:], a dict of the entries: an entry without a blank is a
\* sequence of length 1, which dict() refuses.
_load_setup(m) ==
    LET m1 == ask(m, <<"SET?">>)
        entries == IF m1.ret.s = <<>> THEN <<>> ELSE Tail(m1.ret.s)
    IN  IF \E i \in DOMAIN entries : Len(entries[i]) # 2
        THEN Throw(m1, "ValueError")
        ELSE [m1 EXCEPT !.self.dico =
                 [tag |-> "dict",
                  keys |-> {entries[i][1] : i \in DOMAIN entries}],
              !.ret = PyNone]

get_setup_dict(m, force_load) ==
    LET m1 == IF m.self.dico = Unset \/ force_load THEN _load_setup(m) ELSE m
    IN  Then(m1, LAMBDA x : Give(x, x.self.dico))

number_of_channel(m) ==
    LET m1 == get_setup_dict(m, FALSE)
    IN  Then(m1, LAMBDA x :
            Give(x, PyInt(IF Ch4Key \in x.ret.keys THEN 4 ELSE 2)))

channel_name(m, name) ==
    LET m1 == number_of_channel(m)
        n_max == m1.ret.n
        channel_list == {ChannelText(i) : i \in 1..n_max}
        channel_listb == {IntText(i) : i \in 1..n_max}
    IN  IF Failed(m1) THEN m1
        ELSE IF IsNumber(name)
        THEN IF NumberGreater(name, PyInt(n_max))
             THEN Throw(m1, "TektronixScopeError")
             ELSE Give(m1, PyStr(<<"C", "H">> \o IntText(IntOfNumber(name))))
        ELSE IF IsStr(name) /\ name.s \in channel_list THEN Give(m1, name)
        ELSE IF IsStr(name) /\ name.s \in channel_listb
        THEN Give(m1, PyStr(<<"C", "H">> \o name.s))
        ELSE Throw(m1, "TektronixScopeError")

is_channel_selected(m, channel) ==
    LET m1 == channel_name(m, channel)
        m2 == Then(m1, LAMBDA x : channel_name(x, x.ret))
        m3 == Then(m2, LAMBDA x : ask(x, <<"SEL:">> \o x.ret.s \o <<"?">>))
    IN  Then(m3, LAMBDA x : Give(x, PyBool(x.ret.s = <<"1">>)))

\* What the raise statements of set_impedance and set_coupling raise: the
\* message is built with "%s ... %s" % a_list, a list counts as one
\* argument, and the formatting fails before TektronixScopeError is made.
PermittedSetError == "TypeError"

impedance_liste_string ==
    {<<"F", "I", "F">>, <<"F", "I", "F", "t", "y">>,
     <<"S", "E", "V", "E", "N", "T", "Y", "F">>,
     <<"S", "E", "V", "E", "N", "T", "Y", "F", "i", "v", "e">>,
     <<"M", "E", "G">>, <<"5", "0">>, <<"7", "5">>,
     <<"1", ".", "0", "0", "E", "+", "0", "6">>}

impedance_liste_value ==
    {PyInt(50), PyInt(75), PyFloat(FALSE, FALSE, 1, 6)}

set_impedance(m, channel, value) ==
    LET m1 == channel_name(m, channel)
    IN  IF Failed(m1) THEN m1
        ELSE IF IsStr(value)
        THEN IF Lower(value.s) \notin {Lower(a) : a \in impedance_liste_string}
             THEN Throw(m1, PermittedSetError)
             ELSE write(m1, m1.ret.s \o <<":IMPedance ">> \o value.s)
        ELSE IF IsNumber(value)
        THEN IF ~\E a \in impedance_liste_value : NumberEqual(value, a)
             THEN Throw(m1, PermittedSetError)
             ELSE write(m1, m1.ret.s \o <<":IMPedance ">> \o
                       (IF NumberGreater(PyInt(100), value) THEN Str(value)
                        ELSE <<"1", ".", "0", "0", "E", "+", "0", "6">>))
        ELSE Throw(m1, PermittedSetError)

coupling_liste_string == {<<"A", "C">>, <<"D", "C">>, <<"G", "N", "D">>}

set_coupling(m, channel, value) ==
    LET m1 == channel_name(m, channel)
    IN  IF Failed(m1) THEN m1
        ELSE IF IsStr(value)
        THEN IF Lower(value.s) \notin {Lower(a) : a \in coupling_liste_string}
             THEN Throw(m1, PermittedSetError)
             ELSE write(m1, m1.ret.s \o <<":COUPling ">> \o value.s)
        ELSE Throw(m1, PermittedSetError)

set_data_source(m, name) ==
    LET m1 == channel_name(m, name)
    IN  Then(m1, LAMBDA x : write(x, <<"DAT:SOUR ">> \o x.ret.s))

\* isinstance(data_start, (int, None)): true for an int, and for any other
\* value a TypeError, because None is not a type.
set_data_start(m, data_start) ==
    IF data_start.tag \notin {"int", "bool"} THEN Throw(m, "TypeError")
    ELSE write(m, <<"DATA:START ">> \o IntText(IntOfNumber(data_start)))

get_data_start(m) == AskInt(m, <<"DATA:START?">>)

get_horizontal_record_length(m) == AskInt(m, <<"horizontal:recordlength?">>)

set_data_stop(m, data_stop) ==
    LET m1 == IF data_stop = PyNone THEN get_horizontal_record_length(m)
              ELSE Give(m, data_stop)
    IN  Then(m1, LAMBDA x :
            write(x, <<"DATA:STOP ">> \o IntText(IntOfNumber(x.ret))))

get_data_stop(m) == AskInt(m, <<"DATA:STOP?">>)

get_out_waveform_horizontal_sampling_interval(m) ==
    AskFloat(m, <<"WFMO:XIN?">>)

get_out_waveform_horizontal_zero(m) == AskFloat(m, <<"WFMO:XZERO?">>)

get_out_waveform_vertical_scale_factor(m) == AskFloat(m, <<"WFMO:YMUlt?">>)

get_out_waveform_vertical_position(m) == AskFloat(m, <<"WFMO:YOFf?">>)

\* ------------------------------ TektronixScope: read_data_one_channel
\* Mutant of EffectiveBooster: the flag is taken as it is given.
EffectiveBoosterAsGiven(obj, booster) == booster

\* Whether booster mode is in effect: asked for, and first_read is there
\* and false.
EffectiveBooster(obj, booster) ==
    IF booster
    THEN IF obj.first_read = Unset THEN FALSE
         ELSE IF obj.first_read.b THEN FALSE ELSE booster
    ELSE booster

\* int((t0 - x_0) / delta_x) + 1 and int((t0 + DeltaT - x_0) / delta_x) as
\* <<data_start, data_stop>>.  The values of the model are exact in
\* binary64 and so are the differences; a quotient that is not a whole
\* number is further from one than the rounding of the division.
WindowIndices(m, t0, DeltaT, x_0, delta_x) ==
    IF t0 = PyNone THEN Throw(m, "TypeError")
    ELSE IF Mant(delta_x) = 0 THEN Throw(m, "ZeroDivisionError")
    ELSE IF DeltaT = PyNone THEN Throw(m, "TypeError")
    ELSE LET e == UnitExp(<<t0, DeltaT, x_0, delta_x>>)
             first == Scaled(t0, e) - Scaled(x_0, e)
             last == Scaled(t0, e) + Scaled(DeltaT, e) - Scaled(x_0, e)
         IN  [m EXCEPT !.window =
                 <<PyInt(TruncDiv(first, Scaled(delta_x, e)) + 1),
                   PyInt(TruncDiv(last, Scaled(delta_x, e)))>>]

\* Mutant of ResolveWindow: a time window is refused only next to
\* data_start.
ResolveWindowStartOnly(m, a) ==
    IF a.t0 # PyNone \/ a.DeltaT # PyNone
    THEN IF a.data_start = PyNone
         THEN LET m1 == get_out_waveform_horizontal_zero(m)
                  m2 == Then(m1, LAMBDA x :
                          get_out_waveform_horizontal_sampling_interval(x))
              IN  Then(m2, LAMBDA x :
                      WindowIndices(x, a.t0, a.DeltaT, m1.ret, x.ret))
         ELSE Throw(m, "TektronixScopeError")
    ELSE [m EXCEPT !.window = <<a.data_start, a.data_stop>>]

\* Lines 341-351: the local data_start and data_stop.
ResolveWindow(m, a) ==
    IF a.t0 # PyNone \/ a.DeltaT # PyNone
    THEN IF a.data_stop = PyNone /\ a.data_start = PyNone
         THEN LET m1 == get_out_waveform_horizontal_zero(m)
                  m2 == Then(m1, LAMBDA x :
                          get_out_waveform_horizontal_sampling_interval(x))
              IN  Then(m2, LAMBDA x :
                      WindowIndices(x, a.t0, a.DeltaT, m1.ret, x.ret))
         ELSE Throw(m, "TektronixScopeError")
    ELSE [m EXCEPT !.window = <<a.data_start, a.data_stop>>]

\* Lines 352-357: push the indices that are given, read both back.
PushWindow(m) ==
    LET data_start == m.window[1]
        data_stop == m.window[2]
        m1 == IF data_start # PyNone THEN set_data_start(m, data_start) ELSE m
        m2 == Then(m1, LAMBDA x :
                IF data_stop # PyNone THEN set_data_stop(x, data_stop) ELSE x)
        m3 == Then(m2, LAMBDA x : get_data_start(x))
        m4 == Then(m3, LAMBDA x : [x EXCEPT !.self.data_start = x.ret])
        m5 == Then(m4, LAMBDA x : get_data_stop(x))
    IN  Then(m5, LAMBDA x : [x EXCEPT !.self.data_stop = x.ret])

\* Lines 361-367.
CheckSelected(m, channel) ==
    LET m1 == is_channel_selected(m, channel)
    IN  Then(m1, LAMBDA x :
            IF ~x.ret.b THEN Throw(x, "TektronixScopeError") ELSE x)

\* Lines 368-374: the transfer encoding and the calibration constants.
Calibrate(m) ==
    LET m1 == write(m, <<"DATA:ENCDG RIB">>)
        m2 == Then(m1, LAMBDA x : write(x, <<"WFMO:BYTE_NR 2">>))
        m3 == Then(m2, LAMBDA x : get_out_waveform_vertical_position(x))
        m4 == Then(m3, LAMBDA x : [x EXCEPT !.self.offset = x.ret])
        m5 == Then(m4, LAMBDA x : get_out_waveform_vertical_scale_factor(x))
        m6 == Then(m5, LAMBDA x : [x EXCEPT !.self.scale = x.ret])
        m7 == Then(m6, LAMBDA x : get_out_waveform_horizontal_zero(x))
        m8 == Then(m7, LAMBDA x : [x EXCEPT !.self.x_0 = x.ret])
        m9 == Then(m8, LAMBDA x :
                get_out_waveform_horizontal_sampling_interval(x))
    IN  Then(m9, LAMBDA x : [x EXCEPT !.self.delta_x = x.ret])

\* self._inst.ask_raw(cmd)[:-1]
ask_raw(m, c) ==
    LET block == m.inst.curve
    IN  [m EXCEPT !.log = Append(@, <<"ask_raw", c>>),
                  !.ret = PyBytes(SubSeq(block, 1, Len(block) - 1))]

\* np.frombuffer(buffer, dtype=">i2", offset=int(buffer[1]) + 2): buffer[1]
\* of bytes is the byte's value, so the offset is that value plus 2.
WaveformOf(m, buffer) ==
    LET offset == buffer[2] + 2
        body == SubSeq(buffer, offset + 1, Len(buffer))
    IN  IF Len(buffer) < 2 THEN Throw(m, "IndexError")
        ELSE IF offset > Len(buffer) \/ Len(body) % 2 # 0
        THEN Throw(m, "ValueError")
        ELSE Give(m, [i \in 1..(Len(body) \div 2) |->
                        LET w == 256 * body[2 * i - 1] + body[2 * i]
                        IN  IF w >= 32768 THEN w - 65536 ELSE w])

\* Lines 376-390: the time axis, the curve query and the rescaling.  The
\* arrays are kept as the terms they are computed from.
Curve(m, x_axis_out) ==
    IF \E v \in {m.self.x_0, m.self.data_start, m.self.data_stop,
                 m.self.delta_x} : v = Unset
    THEN Throw(m, "AttributeError")
    ELSE LET m1 == ask_raw(m, <<"CURVE?">>)
             m2 == WaveformOf(m1, m1.ret.bytes)
             X_axis == [x_0 |-> m.self.x_0, delta_x |-> m.self.delta_x,
                        first |-> m.self.data_start.n - 1,
                        last |-> m.self.data_stop.n - 1]
             Y == [res |-> m2.ret, offset |-> m.self.offset,
                   scale |-> m.self.scale]
         IN  IF Failed(m2) THEN m2
             ELSE IF m.self.offset = Unset \/ m.self.scale = Unset
             THEN Throw(m2, "AttributeError")
             ELSE Give(m2, IF x_axis_out THEN <<X_axis, Y>> ELSE <<Y>>)

read_data_one_channel(m, a) ==
    LET booster == EffectiveBooster(m.self, a.booster)
        first_read(x) == [x EXCEPT !.self.first_read = PyBool(FALSE)]
        window(x) == IF ~booster THEN ResolveWindow(x, a) ELSE x
        push(x) == IF ~booster THEN PushWindow(x) ELSE x
        source(x) ==
            IF a.channel # PyNone THEN set_data_source(x, a.channel) ELSE x
        selected(x) == IF ~booster THEN CheckSelected(x, a.channel) ELSE x
        calibration(x) == IF ~booster THEN Calibrate(x) ELSE x
        curve(x) == Curve(x, a.x_axis_out)
    IN  Then(Then(Then(Then(Then(Then(first_read(m), window), push),
                            source), selected), calibration), curve)

\* ------------------------------------------- TektronixScope: the calls
NoScopeCall == [method |-> "none"]
NoPsuCall == [method |-> "none"]

\* scall and pcall record the client's last call: a call on one driver
\* clears the record of the other.
ScopeOnly ==
    /\ pcall' = NoPsuCall
    /\ UNCHANGED <<dmmVars, regVars, decVars, psu, oscVars, plateVars>>

ScopeInit ==
    /\ scope = NewScope
    /\ inst \in Instruments
    /\ scall = NoScopeCall

\* How a call ended.
Outcome(m) == IF Failed(m) THEN Raise(m.exc) ELSE Return(m.ret)

\* A call of a method: the driver's attributes and the instrument after it,
\* and the record of the call with the attributes it started from and the
\* window it resolved.
ScopeCall(method, args, m) ==
    /\ scope' = m.self
    /\ inst' = m.inst
    /\ scall' = [method |-> method, args |-> args, pre |-> scope,
                 log |-> m.log, window |-> m.window, result |-> Outcome(m)]
    /\ ScopeOnly

Half == PyFloat(FALSE, FALSE, 5, -1)

\* Channel references: ints in and out of range, a bool, a float, texts in
\* and out of the two lists, None.
ChannelArgs ==
    {PyInt(k) : k \in -1..5} \cup
    {PyBool(TRUE), PyFloat(FALSE, FALSE, 15, -1), PyNone} \cup
    {PyStr(IntText(k)) : k \in 0..5} \cup
    {PyStr(ChannelText(k)) : k \in 0..5} \cup
    {PyStr(<<"c", "h", "1">>), PyStr(<<>>)}

CallChannelName ==
    \E name \in ChannelArgs :
        ScopeCall("channel_name", <<name>>,
                  channel_name(Machine(scope, inst), name))

ScaleArgs == {PyInt(2), Half, PyBool(TRUE), PyStr(<<"2">>), PyNone}

CallSetHorizontalScale ==
    \E val \in ScaleArgs :
        ScopeCall("set_horizontal_scale", <<val>>,
                  set_horizontal_scale(Machine(scope, inst), val))

\* The channels the setters and the acquisition are called for.
CallChannels == {PyInt(1), PyInt(3), PyStr(ChannelText(2)), PyNone}

CouplingArgs ==
    {PyStr(<<"A", "C">>), PyStr(<<"d", "c">>), PyStr(<<"G", "n", "d">>),
     PyStr(<<"X", "X">>), PyInt(1), PyNone}

CallSetCoupling ==
    \E channel \in CallChannels, value \in CouplingArgs :
        ScopeCall("set_coupling", <<channel, value>>,
                  set_coupling(Machine(scope, inst), channel, value))

ImpedanceArgs ==
    {PyStr(<<"F", "I", "F">>), PyStr(<<"m", "e", "g">>), PyStr(<<"7", "5">>),
     PyStr(<<"X", "X">>), PyInt(50), PyInt(75), PyFloat(FALSE, FALSE, 1, 6),
     PyFloat(FALSE, FALSE, 5, 1), PyInt(60), PyBool(TRUE), PyNone}

CallSetImpedance ==
    \E channel \in CallChannels, value \in ImpedanceArgs :
        ScopeCall("set_impedance", <<channel, value>>,
                  set_impedance(Machine(scope, inst), channel, value))

\* The arguments of read_data_one_channel.
ReadArgs ==
    [channel : {PyNone, PyInt(1), PyInt(3)},
     data_start : {PyNone, PyInt(2)},
     data_stop : {PyNone, PyInt(5)},
     x_axis_out : {FALSE},
     t0 : {PyNone, PyFloat(TRUE, FALSE, 125, -2), Half},
     DeltaT : {PyNone, PyInt(1)},
     booster : BOOLEAN]

CallReadData ==
    \E a \in ReadArgs :
        ScopeCall("read_data_one_channel", a,
                  read_data_one_channel(Machine(scope, inst), a))

ScopeNext == CallReadData

ScopeSettersNext ==
    \/ CallChannelName
    \/ CallSetHorizontalScale
    \/ CallSetCoupling
    \/ CallSetImpedance

\* ------------------------------------------------------------ DeltaPSU
VOLTAGE_RANGE == <<0, 30>>
CURRENT_RANGE == <<0, 5>>

\* The attributes __init__ gives a DeltaPSU.
PsuAttributes ==
    {"_port", "_baudrate", "_timeout", "_connect_on_init", "_lock", "_serial"}

\* The property reads self.serial; an attribute the object does not have
\* raises AttributeError, which the property turns into False.
psu_is_connected(obj) ==
    IF "serial" \in PsuAttributes THEN obj._serial = "open" ELSE FALSE

\* connect(): serial.Serial(...) unless connected.
psu_connect(m) ==
    IF psu_is_connected(m.self) THEN m
    ELSE [m EXCEPT !.log = Append(@, <<"open">>), !.self._serial = "open"]

\* disconnect()
psu_disconnect(m) ==
    IF ~psu_is_connected(m.self) THEN m
    ELSE [m EXCEPT !.log = Append(@, <<"close">>), !.self._serial = "none"]

\* _send_and_receive: past the connection check it takes the lock, writes
\* the command with its carriage return, and reads self.serial.in_waiting.
_send_and_receive(m, command) ==
    IF ~psu_is_connected(m.self) THEN Throw(m, "ConnectionError")
    ELSE IF m.self._lock # "free" THEN Throw(m, "TimeoutError")
    ELSE LET m1 == [m EXCEPT !.self._lock = "held",
                             !.log = Append(@, <<"write", command \o <<"\r">>>>)]
         IN  IF "serial" \in PsuAttributes
             THEN [m1 EXCEPT !.log = Append(@, <<"readline">>),
                             !.self._lock = "free"]
             ELSE Throw(m1, "AttributeError")

\* a <= v <= b for a float v.
InRange(v, range) ==
    /\ ~v.inf
    /\ ~NumberGreater(PyInt(range[1]), v)
    /\ ~NumberGreater(v, PyInt(range[2]))

set_voltage(m, voltage) ==
    IF voltage.tag # "float" THEN Throw(m, "TypeError")
    ELSE IF ~InRange(voltage, VOLTAGE_RANGE) THEN Throw(m, "ValueError")
    ELSE _send_and_receive(m, <<"sv ">> \o FloatText(Times1000(voltage)))

set_current(m, current) ==
    IF current.tag # "float" THEN Throw(m, "TypeError")
    ELSE IF ~InRange(current, CURRENT_RANGE) THEN Throw(m, "ValueError")
    ELSE _send_and_receive(m, <<"sc ">> \o FloatText(Times1000(current)))

PsuOnly ==
    /\ scall' = NoScopeCall
    /\ UNCHANGED <<dmmVars, regVars, decVars, scope, inst, oscVars, plateVars>>

\* A DeltaPSU after __init__, with connect_on_init true or false.
PsuInit ==
    /\ \E connect_on_init \in BOOLEAN :
         psu = [_serial |-> IF connect_on_init THEN "open" ELSE "none",
                _lock |-> "free"]
    /\ pcall = NoPsuCall

PsuQuiet ==
    /\ psu = [_serial |-> "none", _lock |-> "free"]
    /\ pcall = NoPsuCall

PsuCall(method, args, m) ==
    /\ psu' = m.self
    /\ pcall' = [method |-> method, args |-> args, pre |-> psu,
                 log |-> m.log, result |-> Outcome(m)]
    /\ PsuOnly

\* Set points: floats in and out of both ranges and on their ends, an int,
\* a text, None.
SetPointArgs ==
    {PyFloat(FALSE, FALSE, 0, 0), PyFloat(FALSE, FALSE, 25, -1),
     PyFloat(FALSE, FALSE, 5, 0), PyFloat(FALSE, FALSE, 3, 1),
     PyFloat(FALSE, FALSE, 31, 0), PyFloat(TRUE, FALSE, 1, 0),
     PyFloat(FALSE, TRUE, 0, 0), PyInt(5), PyStr(<<"5">>), PyNone}

CallConnect == PsuCall("connect", <<>>, psu_connect(Machine(psu, PyNone)))

CallDisconnect ==
    PsuCall("disconnect", <<>>, psu_disconnect(Machine(psu, PyNone)))

CallSetVoltage ==
    \E voltage \in SetPointArgs :
        PsuCall("set_voltage", <<voltage>>,
                set_voltage(Machine(psu, PyNone), voltage))

CallSetCurrent ==
    \E current \in SetPointArgs :
        PsuCall("set_current", <<current>>,
                set_current(Machine(psu, PyNone), current))

PsuNext == CallConnect \/ CallDisconnect \/ CallSetVoltage \/ CallSetCurrent

\* ------------------------------------------ DAQC2 Oscilloscope facade
SweepThreads == 1..MaxSweeps

\* self._sweep_thread before the first enable().
NoThread == 0

\* The attributes __init__ sets that the calls below read or write.
NewOscilloscope ==
    [_sweep_rate |-> 9, _channel_one_active |-> FALSE,
     _channel_two_active |-> FALSE, _sweep_thread |-> NoThread,
     _stop_event |-> FALSE]

\* What the board was last told: startOSC/stopOSC, setOSCchannel and
\* setOSCsweep.
NewBoard == [osc |-> FALSE, channels |-> <<0, 0>>, sweep |-> 9]

OscOnly == UNCHANGED <<dmmVars, regVars, decVars, scopeVars, psuVars, plateVars>>

OscInit ==
    /\ osc = NewOscilloscope
    /\ board = NewBoard
    /\ sweeps = [t \in SweepThreads |-> "unborn"]
    /\ opc = "idle"
    /\ ocall = [method |-> "none"]

\* int(self._channel_one_active), int(self._channel_two_active)
_reset_channels(o, b) ==
    [b EXCEPT !.channels = <<IF o._channel_one_active THEN 1 ELSE 0,
                             IF o._channel_two_active THEN 1 ELSE 0>>]

_reset_sweep_rate(o, b) == [b EXCEPT !.sweep = o._sweep_rate]

\* A call of the client thread that ends in one step.
OscCall(method, arg, res, o, b) ==
    /\ opc = "idle"
    /\ osc' = o
    /\ board' = b
    /\ ocall' = [method |-> method, arg |-> arg, pre |-> osc, result |-> res]
    /\ UNCHANGED <<sweeps, opc>>
    /\ OscOnly

\* scope.sweep_rate = rate; a bool is an int for isinstance.
sweep_rate(rate) ==
    IF rate.tag \notin {"int", "bool"}
    THEN OscCall("sweep_rate", rate, Raise("TypeError"), osc, board)
    ELSE LET n == IF rate.tag = "int" THEN rate.n
                  ELSE IF rate.b THEN 1 ELSE 0
             o == [osc EXCEPT !._sweep_rate = n]
         IN  IF n \notin 0..12
             THEN OscCall("sweep_rate", rate, Raise("ValueError"), osc, board)
             ELSE IF n = 12 /\ osc._channel_two_active
             THEN OscCall("sweep_rate", rate, Raise("ValueError"), osc, board)
             ELSE OscCall("sweep_rate", rate, Return(PyNone), o,
                          _reset_sweep_rate(o, board))

\* scope.channel_one_active = active
channel_one_active(active) ==
    IF active.tag # "bool"
    THEN OscCall("channel_one_active", active, Raise("TypeError"), osc, board)
    ELSE LET o == [osc EXCEPT !._channel_one_active = active.b]
         IN  OscCall("channel_one_active", active, Return(PyNone), o,
                     _reset_channels(o, board))

\* scope.channel_two_active = active
channel_two_active(active) ==
    IF active.tag # "bool"
    THEN OscCall("channel_two_active", active, Raise("TypeError"), osc, board)
    ELSE LET o == [osc EXCEPT !._channel_two_active = active.b]
         IN  OscCall("channel_two_active", active, Return(PyNone), o,
                     _reset_channels(o, board))

\* enable(): the board is started and sent the channels, the trigger (which
\* no call of this model changes) and the sweep rate, and a new Thread
\* running _sweep replaces self._sweep_thread, whatever thread was there.
enable ==
    /\ opc = "idle"
    /\ \E t \in SweepThreads :
        /\ sweeps[t] = "unborn"
        /\ \A u \in SweepThreads : u < t => sweeps[u] # "unborn"
        /\ osc' = [osc EXCEPT !._sweep_thread = t]
        /\ sweeps' = [sweeps EXCEPT ![t] = "outer"]
    /\ board' = _reset_sweep_rate(osc,
                    _reset_channels(osc, [board EXCEPT !.osc = TRUE]))
    /\ ocall' = [method |-> "enable", arg |-> PyNone, pre |-> osc,
                 result |-> Return(PyNone)]
    /\ UNCHANGED opc
    /\ OscOnly

\* disable(), lines 310-311: the event is set, then self._sweep_thread.join
\* is looked up, which None does not have.
DisableSet ==
    /\ opc = "idle"
    /\ osc' = [osc EXCEPT !._stop_event = TRUE]
    /\ IF osc._sweep_thread = NoThread
       THEN /\ ocall' = [method |-> "disable", arg |-> PyNone, pre |-> osc,
                         result |-> Raise("AttributeError")]
            /\ UNCHANGED opc
       ELSE /\ ocall' = [method |-> "disable", arg |-> PyNone, pre |-> osc,
                         result |-> NoResult]
            /\ opc' = "join"
    /\ UNCHANGED <<board, sweeps>>
    /\ OscOnly

\* disable(), line 311: join returns once the thread in self._sweep_thread
\* has ended.
DisableJoin ==
    /\ opc = "join"
    /\ sweeps[osc._sweep_thread] = "done"
    /\ opc' = "clear"
    /\ UNCHANGED <<osc, board, sweeps, ocall>>
    /\ OscOnly

\* disable(), lines 312-313: the event is cleared and the board stopped.
DisableClear ==
    /\ opc = "clear"
    /\ osc' = [osc EXCEPT !._stop_event = FALSE]
    /\ board' = [board EXCEPT !.osc = FALSE]
    /\ ocall' = [ocall EXCEPT !.result = Return(PyNone)]
    /\ opc' = "idle"
    /\ UNCHANGED sweeps
    /\ OscOnly

\* _sweep, line 323: the outer loop reads the event.
SweepOuter(t) ==
    /\ sweeps[t] = "outer"
    /\ sweeps' = [sweeps EXCEPT ![t] = IF osc._stop_event THEN "done"
                                       ELSE "inner"]
    /\ UNCHANGED <<osc, board, opc, ocall>>
    /\ OscOnly

\* _sweep, lines 325-328: the inner loop ends when the event is set or the
\* interrupt line reads 0; until then it polls both again.
SweepInner(t) ==
    /\ sweeps[t] = "inner"
    /\ \E data_ready \in BOOLEAN :
        sweeps' = [sweeps EXCEPT ![t] =
                      IF osc._stop_event \/ data_ready THEN "traces"
                      ELSE "inner"]
    /\ UNCHANGED <<osc, board, opc, ocall>>
    /\ OscOnly

\* _sweep, line 329: the traces are fetched, then the outer loop goes on.
SweepTraces(t) ==
    /\ sweeps[t] = "traces"
    /\ sweeps' = [sweeps EXCEPT ![t] = "outer"]
    /\ UNCHANGED <<osc, board, opc, ocall>>
    /\ OscOnly

\* Sweep rates the client assigns: the default, the highest rate, one past
\* the range, no integer.
SweepRateArgs == {PyInt(9), PyInt(12), PyInt(13), PyNone}

ActiveArgs == {PyBool(TRUE), PyBool(FALSE), PyInt(1)}

OscNext ==
    \/ \E rate \in SweepRateArgs : sweep_rate(rate)
    \/ \E active \in ActiveArgs : channel_one_active(active)
    \/ \E active \in ActiveArgs : channel_two_active(active)
    \/ enable
    \/ DisableSet
    \/ DisableJoin
    \/ DisableClear
    \/ \E t \in SweepThreads : SweepOuter(t) \/ SweepInner(t) \/ SweepTraces(t)

\* ------------------------------------------------ DAQCplate, DAQC2plate
Plates == {"DAQCplate", "DAQC2plate"}

PlateOnly ==
    UNCHANGED <<dmmVars, rlock, rpc, rcall, rresult, decVars, scopeVars,
                psuVars, oscVars>>

\* A plate after __init__: its PinRegister is new.
PlateInit ==
    /\ plate \in Plates
    /\ issued = {}
    /\ gcall = [method |-> "none"]

PlateQuiet ==
    /\ plate = "none"
    /\ issued = {}
    /\ gcall = [method |-> "none"]

\* self._pin_register.register_<cat>(pin), from one thread: the two checks,
\* then the append.
register(held, cat, pin) ==
    IF ~(PinLow(cat) <= pin /\ pin <= PinHigh(cat)) \/ InList(pin, held[cat])
    THEN [exc |-> "ValueError", pins |-> held]
    ELSE [exc |-> "", pins |-> [held EXCEPT ![cat] = Append(@, pin)]]

\* DAQCplate.get_<cat>(pin) for an integer pin.  verified is what the
\* board library's Verify<cat>channel(pin) answers: a true value when the
\* board accepts the pin.  The method returns self.DAQCdigitalInput(...),
\* self.DAQCdigitalOutput(...), self.DAQCanalogInput(...) or
\* self.DAQCAnalogOutput(...); the classes of the plate are DigitalInput,
\* DigitalOutput, AnalogInput and AnalogOutput, so the attribute lookup
\* raises after the pin is registered.
daqc1_get(held, cat, pin, verified) ==
    IF ~verified THEN [result |-> Raise("ValueError"), pins |-> held]
    ELSE LET r == register(held, cat, pin)
         IN  IF r.exc # "" THEN [result |-> Raise(r.exc), pins |-> held]
             ELSE [result |-> Raise("AttributeError"), pins |-> r.pins]

\* DAQC2plate.<Pin class>.__init__(address, pin) with the plate's address:
\* the address verifies as it did in the plate's __init__.
daqc2_pin_init(cat, pin, verified) ==
    IF ~verified THEN Raise("ValueError")
    ELSE Return([cat |-> cat, pin |-> pin])

\* DAQC2plate.get_<cat>(pin) for an integer pin.  get_digital_input raises
\* ValueError when the verifier answers a true value; the other three make
\* no check of their own.
daqc2_get(held, cat, pin, verified) ==
    IF cat = "digital_inputs" /\ verified
    THEN [result |-> Raise("ValueError"), pins |-> held]
    ELSE LET r == register(held, cat, pin)
         IN  IF r.exc # "" THEN [result |-> Raise(r.exc), pins |-> held]
             ELSE [result |-> daqc2_pin_init(cat, pin, verified),
                   pins |-> r.pins]

\* plate.get_digital_input(pin), get_digital_output(pin),
\* get_analog_input(pin) or get_analog_output(pin).  The model stops calls
\* that would register a pin once MaxHeld pins are held.
GetPin(cat, pin, verified) ==
    LET g == IF plate = "DAQCplate" THEN daqc1_get(pins, cat, pin, verified)
             ELSE daqc2_get(pins, cat, pin, verified)
    IN  /\ g.pins # pins => Held < MaxHeld
        /\ pins' = g.pins
        /\ gcall' = [method |-> cat, pin |-> pin, verified |-> verified,
                     pre |-> pins, result |-> g.result]
        /\ issued' = IF g.result.kind = "return"
                     THEN issued \cup {<<cat, pin>>} ELSE issued
        /\ UNCHANGED plate
        /\ PlateOnly

\* The four get_<category> methods, with every pin and verifier answer.
PlateNext ==
    \E cat \in Categories, pin \in PinArgs, verified \in BOOLEAN :
        GetPin(cat, pin, verified)

\* ---------------------------------------------------- specifications
\* The components at rest, for the specifications of the other ones.
DmmQuiet ==
    /\ ser = "none"
    /\ lock = Free
    /\ pc = [t \in Threads |-> "idle"]
    /\ op = [t \in Threads |-> "none"]
    /\ cmd = [t \in Threads |-> <<>>]
    /\ ret = [t \in Threads |-> <<>>]
    /\ result = [t \in Threads |-> NoResult]
    /\ wire = <<>>

DecQuiet == frame = <<>> /\ out = [fn |-> "none"]

ScopeQuiet ==
    /\ scope = NewScope
    /\ inst = PyNone
    /\ scall = NoScopeCall

\* The components the first four specifications leave alone.
InstrumentsQuiet == ScopeQuiet /\ PsuQuiet /\ OscInit /\ PlateQuiet

\* One TTI1604 used by NumThreads threads.
Init == DmmInit /\ RegInit /\ DecQuiet /\ InstrumentsQuiet
Next == DmmNext
Spec == Init /\ [][Next]_vars

\* One PinRegister used by NumRegThreads threads.
InitReg == DmmQuiet /\ RegInit /\ DecQuiet /\ InstrumentsQuiet
SpecReg == InitReg /\ [][RegNext]_vars

\* One PinRegister used by one thread.
SpecRegSeq == InitReg /\ [][RegSeqNext]_vars

\* The decoder functions applied to a frame.
InitDec == DmmQuiet /\ RegInit /\ DecInit /\ InstrumentsQuiet
SpecDec == InitDec /\ [][DecNext]_vars

\* Acquisitions with one TektronixScope on one instrument, from one thread.
InitScope ==
    DmmQuiet /\ RegInit /\ DecQuiet /\ ScopeInit /\ PsuQuiet /\ OscInit /\ PlateQuiet
SpecScope == InitScope /\ [][ScopeNext]_vars

\* Channel naming and the setters of one TektronixScope, and one DeltaPSU,
\* called by one client thread.
InitSetters ==
    DmmQuiet /\ RegInit /\ DecQuiet /\ ScopeInit /\ PsuInit /\ OscInit /\ PlateQuiet
SettersNext == ScopeSettersNext \/ PsuNext
SpecSetters == InitSetters /\ [][SettersNext]_vars

\* One Oscilloscope facade: a client thread and the sweep threads it starts.
InitOsc == DmmQuiet /\ RegInit /\ DecQuiet /\ ScopeQuiet /\ PsuQuiet /\ OscInit /\ PlateQuiet
SpecOsc == InitOsc /\ [][OscNext]_vars

\* One DAQCplate or DAQC2plate used by one thread.
InitPlate == DmmQuiet /\ RegInit /\ DecQuiet /\ ScopeQuiet /\ PsuQuiet /\ OscInit /\ PlateInit
SpecPlate == InitPlate /\ [][PlateNext]_vars

\* ================================================================ claims
\* The statements a call holds the lock at.
InFlightPcs ==
    {"sc_reset_in", "sc_reset_out", "sc_write", "sc_read", "sc_check",
     "rd_reset_in", "rd_reset_out", "rd_read"}

AcquirePcs == {"sc_acquire", "rd_acquire"}

\* The link operations of a call, in the order the method makes them.
CallOps(t) ==
    IF op[t] = "send_command"
    THEN <<"reset_input_buffer", "reset_output_buffer", "write", "read">>
    ELSE <<"reset_input_buffer", "reset_output_buffer", "read">>

\* C1: at most one call at a time is between its buffer reset and its final
\* read; the link operations in flight are those of that one call, in the
\* order the call makes them, so no other call's operation lies between.
C1_NoInterleaving ==
    /\ Cardinality({t \in Threads : pc[t] \in InFlightPcs}) <= 1
    /\ \A i \in DOMAIN wire :
         LET t == wire[i][1]
         IN  /\ pc[t] \in InFlightPcs
             /\ i <= Len(CallOps(t))
             /\ wire[i][2] = CallOps(t)[i]

\* C1 witness: one call has reset and written and is about to read while
\* another thread's call waits for the lock.
C1_Witness ==
    \E t, u \in Threads :
        /\ t # u
        /\ pc[t] = "sc_read"
        /\ Len(wire) = 3
        /\ pc[u] = "rd_acquire"

\* C2: in every state with no call in progress the lock is free, however
\* the calls ended.
C2_LockFreeWhenIdle == (\A t \in Threads : pc[t] = "idle") => lock = Free

\* A call waiting for a lock that is held can end with TimeoutError.
C3_CanTimeOut ==
    \A t \in Threads :
        (pc[t] \in AcquirePcs /\ lock # Free) => ENABLED AcquireTimedOut(t)

\* The only step such a call takes ends it with TimeoutError, and a step
\* that ends a call with TimeoutError leaves the lock and the link alone.
C3_Step ==
    \A t \in Threads :
        /\ (pc[t] \in AcquirePcs /\ lock # Free /\ pc'[t] # pc[t]) =>
              /\ result'[t] = Raise("TimeoutError")
              /\ pc'[t] = "idle"
        /\ (result'[t] = Raise("TimeoutError") /\ result[t] # result'[t]) =>
              /\ pc[t] \in AcquirePcs
              /\ lock # Free
              /\ lock' = lock
              /\ wire' = wire

\* C3: a send_command or read_data call that cannot get the lock ends with
\* TimeoutError instead of waiting for ever; it makes no buffer reset, write
\* or read on the link and leaves the lock with its owner.
C3_LockTimeout == [](C3_CanTimeOut) /\ [][C3_Step]_vars

\* C3 witness: a send_command ended with TimeoutError while the call of
\* another thread, which holds the lock, is in the middle of its sequence.
C3_Witness ==
    \E t, u \in Threads :
        /\ t # u
        /\ op[t] = "send_command"
        /\ result[t] = Raise("TimeoutError")
        /\ lock = u
        /\ pc[u] = "rd_read"
        /\ Len(wire) = 2

\* C4: send_command, once its read has returned, returns True exactly when
\* the response is the one command byte, False for every other response,
\* and never raises.
C4_EchoDecides ==
    [][\A t \in Threads :
          (pc[t] = "sc_check" /\ pc'[t] = "idle") =>
              result'[t] = Return(PyBool(ret[t] = cmd[t]))]_vars

NoDuplicate(l) == \A i, j \in DOMAIN l : i # j => l[i] # l[j]

\* C5: with two threads registering, no category ever holds a pin twice.
C5_NoDoubleRegistration == \A c \in Categories : NoDuplicate(pins[c])

\* The valid pins of a category, as the register's documentation gives them.
ValidPins(c) == IF c = "analog_outputs" THEN 1..3 ELSE 0..7

\* No category holds a pin twice or a pin outside its range.
C6_Inv ==
    \A c \in Categories :
        /\ NoDuplicate(pins[c])
        /\ \A i \in DOMAIN pins[c] : pins[c][i] \in ValidPins(c)

\* The steps of a registration made by the one caller.
C6_Step ==
    /\ (rpc[1] = "reg_check" /\ rpc'[1] # "reg_check") =>
          IF InList(rcall[1].pin, pins[rcall[1].cat])
          THEN /\ rresult'[1] = Raise("ValueError: Pin is already registered")
               /\ rpc'[1] = "idle"
               /\ pins' = pins
          ELSE IF rcall[1].pin \in ValidPins(rcall[1].cat)
          THEN rpc'[1] = "reg_lock" /\ pins' = pins
          ELSE /\ rresult'[1] = Raise("ValueError: Invalid pin")
               /\ rpc'[1] = "idle"
               /\ pins' = pins
    /\ (rpc[1] = "reg_lock" /\ rpc'[1] # "reg_lock") =>
          rpc'[1] = "reg_append" /\ pins' = pins
    /\ (rpc[1] = "reg_append" /\ rpc'[1] # "reg_append") =>
          /\ pins' = [pins EXCEPT ![rcall[1].cat] = Append(@, rcall[1].pin)]
          /\ rresult'[1] = Return(PyNone)

\* C6: used from one thread, a registration of a pin its category holds
\* fails and changes nothing, a registration of a valid pin its category
\* does not hold goes through whatever the other categories hold, and no
\* category ever holds a pin twice or a pin outside its range.
C6_SequentialRegister == [](C6_Inv) /\ [][C6_Step]_vars

\* C6 witness: one pin number is held in two categories and the last call,
\* a registration of a pin already held, failed.
C6_Witness ==
    /\ \E p \in PinArgs :
         InList(p, pins["digital_inputs"]) /\ InList(p, pins["analog_inputs"])
    /\ rpc[1] = "idle"
    /\ rresult[1] = Raise("ValueError: Pin is already registered")

\* Bit n of byte b.
Bit(b, n) == (b \div (2 ^ n)) % 2 = 1

\* C7: for a 10-byte frame with byte 0 = 13, parse_data returns a record
\* whose value is parse_number_unit of the frame and whose type, AC/DC,
\* range and flags are the bits of bytes 1, 2 and 9.
C7_ParseDataRecord ==
    (out.fn = "parse_data" /\ Len(frame) = 10 /\ frame[1] = 13) =>
        /\ out.res.kind = "return"
        /\ out.res.val.tag = "dict"
        /\ Return(out.res.val.value) = parse_number_unit(frame)
        /\ out.res.val.type = range_type_info[frame[2] % 8]
        /\ out.res.val.acdc = (IF Bit(frame[2], 3) THEN "AC" ELSE "DC")
        /\ out.res.val.range = range_info[(frame[2] \div 16) % 8]
        /\ out.res.val.thold = Bit(frame[3], 0)
        /\ out.res.val.minmax = Bit(frame[3], 2)
        /\ out.res.val.hertz = Bit(frame[3], 4)
        /\ out.res.val.null = Bit(frame[3], 5)
        /\ out.res.val.auto = Bit(frame[3], 6)
        /\ out.res.val.doublebeep = Bit(frame[10], 0)
        /\ out.res.val.autorange = Bit(frame[10], 2)
        /\ out.res.val.contbuzz = Bit(frame[10], 3)
        /\ out.res.val.dispmin = Bit(frame[10], 4)
        /\ out.res.val.dispmax = Bit(frame[10], 5)
        /\ out.res.val.disphold = Bit(frame[10], 6)
        /\ out.res.val.gate10sec = Bit(frame[10], 7)

\* C8: for a 10-byte frame whose byte 0 is not 13, parse_data returns False
\* and raises nothing.
C8_NoDataSentinel ==
    (out.fn = "parse_data" /\ Len(frame) = 10 /\ frame[1] # 13) =>
        out.res = Return(PyBool(FALSE))

\* C8 witness: parse_data has been applied to a frame that is a complete
\* "4.00" kOhm reading but for its byte 0.
C8_Witness ==
    /\ out.fn = "parse_data"
    /\ frame = MkFrame(10, TypeByte(5, 0, 2), 0, 0, <<103, 252, 252, 0, 0>>, 0)
    /\ out.res = Return(PyBool(FALSE))

\* C9: a step of read_data, get_complete_state or get_value at its
\* connection check while the link is not open ends the call with
\* ConnectionError, and the lock and the link are as before.
C9_NotConnected ==
    [][\A t \in Threads :
          (pc[t] \in {"rd_connected", "gs_connected"} /\ ser # "open"
           /\ pc'[t] # pc[t]) =>
              /\ result'[t] = Raise("ConnectionError")
              /\ pc'[t] = "idle"
              /\ lock' = lock
              /\ wire' = wire]_vars

\* C9 witness: on a driver that never connected, a get_value call and a
\* read_data call have both ended with ConnectionError.
C9_Witness ==
    /\ ser = "none"
    /\ \E t, u \in Threads :
         /\ op[t] = "get_value"
         /\ result[t] = Raise("ConnectionError")
         /\ op[u] = "read_data"
         /\ result[u] = Raise("ConnectionError")

\* The frame of a "4.00" display with the given type and range codes.
Reading400(type, range) ==
    MkFrame(DataMarker, TypeByte(type, 0, range), 0, 0, <<103, 252, 252, 0, 0>>, 0)

\* C10: parse_number_unit gives parse_number's result times 1000 exactly
\* when that result is a float, the type code (byte 1 bits 0-2) is 5 and the
\* range code (byte 1 bits 4-6) is not 0, and gives it unchanged otherwise;
\* "4.00" gives 4000.0 at range code 2 and 4.0 at range code 0.
C10_ResistanceScaling ==
    (out.fn = "parse_number_unit" /\ Len(frame) = 10) =>
        LET pn == parse_number(frame)
            type == frame[2] % 8
            range == (frame[2] \div 16) % 8
        IN  /\ out.res.kind = "return"
            /\ IF pn.val.tag = "float" /\ type = 5 /\ range # 0
               THEN out.res.val = Times1000(pn.val)
               ELSE out.res = pn
            /\ frame = Reading400(5, 2) => out.res.val = PyFloat(FALSE, FALSE, 4, 3)
            /\ frame = Reading400(5, 0) => out.res.val = PyFloat(FALSE, FALSE, 4, 0)
            /\ frame = Reading400(2, 2) => out.res.val = PyFloat(FALSE, FALSE, 4, 0)

\* C10 witness: parse_number_unit has scaled "4.00" at type 5, range 2.
C10_Witness ==
    /\ out.fn = "parse_number_unit"
    /\ frame = Reading400(5, 2)
    /\ out.res = Return(PyFloat(FALSE, FALSE, 4, 3))

\* ------------------------------------------------ TektronixScope claims
IsRead == scall.method = "read_data_one_channel"

\* The call was the first read_data_one_channel on the instance.
FirstRead == IsRead /\ scall.pre.first_read = Unset

\* Booster mode was asked for and an earlier read_data_one_channel call
\* was made on the instance.
BoosterInEffect == IsRead /\ scall.args.booster /\ scall.pre.first_read # Unset

\* C11: the first read_data_one_channel call on an instance made with
\* booster=True sends the same commands and queries, in the same order, and
\* ends the same way as that call made with booster=False from the same
\* driver state on the same instrument.
C11_FirstBoosterSame ==
    (FirstRead /\ scall.args.booster) =>
        LET other == read_data_one_channel(
                         Machine(scall.pre, inst),
                         [scall.args EXCEPT !.booster = FALSE])
        IN  /\ scall.log = other.log
            /\ scall.result = Outcome(other)

\* C11 witness: a first call with booster=True has sent queries to the
\* instrument.
C11_Witness ==
    /\ FirstRead
    /\ scall.args.booster
    /\ Len(scall.log) >= 3
    /\ scall.log[1] = <<"ask", <<"DATA:START?">>>>

\* The call names a sample index and a time window.
BothWindows ==
    /\ IsRead
    /\ scall.args.data_start # PyNone \/ scall.args.data_stop # PyNone
    /\ scall.args.t0 # PyNone \/ scall.args.DeltaT # PyNone

\* The call failed with the scope error before any transport operation.
RefusedBeforeIO ==
    /\ scall.result = Raise("TektronixScopeError")
    /\ scall.log = <<>>

\* C12 as stated: every read_data_one_channel call with both a sample index
\* and a time window fails with TektronixScopeError before anything is
\* sent, whatever its other arguments and the calls before it.
C12_AlwaysExclusive == BothWindows => RefusedBeforeIO

\* C12: every read_data_one_channel call with both a sample index and a
\* time window in which booster mode is not in effect (booster is false or
\* no read_data_one_channel call was made before) fails with
\* TektronixScopeError before anything is sent.
C12_ExclusiveUnlessBooster ==
    (BothWindows /\ ~BoosterInEffect) => RefusedBeforeIO

\* C12 witness: a later call without booster, with data_stop and t0, has
\* been refused with nothing sent.
C12_Witness ==
    /\ BothWindows
    /\ ~scall.args.booster
    /\ scall.pre.first_read # Unset
    /\ scall.args.data_start = PyNone
    /\ RefusedBeforeIO

\* The call sent no write to the instrument.
NoWrite == \A i \in DOMAIN scall.log : scall.log[i][1] # "write"

\* A coupling in the permitted set: AC, DC or GND in any letter case.
PermittedCoupling(v) ==
    /\ IsStr(v)
    /\ Lower(v.s) \in {<<"a", "c">>, <<"d", "c">>, <<"g", "n", "d">>}

\* An impedance in the permitted set: a listed name in any letter case, or
\* one of the numbers 50, 75, 1000000.
PermittedImpedance(v) ==
    \/ IsStr(v) /\ \E a \in impedance_liste_string : Lower(v.s) = Lower(a)
    \/ IsNumber(v) /\ \E n \in {50, 75, 1000000} : NumberEqual(v, PyInt(n))

\* The call is one of the three setters with a value outside its set.
OutsidePermittedSet ==
    \/ scall.method = "set_horizontal_scale" /\ ~IsNumber(scall.args[1])
    \/ scall.method = "set_coupling" /\ ~PermittedCoupling(scall.args[2])
    \/ scall.method = "set_impedance" /\ ~PermittedImpedance(scall.args[2])

\* C13: set_horizontal_scale, set_coupling and set_impedance given a value
\* outside their permitted set fail with TektronixScopeError and write no
\* setting command to the instrument.
C13_SettersRefuse ==
    OutsidePermittedSet =>
        scall.result = Raise("TektronixScopeError") /\ NoWrite

ScopeSetters == {"set_horizontal_scale", "set_coupling", "set_impedance"}
PsuSetters == {"set_voltage", "set_current"}

\* How a call ends when it rejects an argument.
ArgumentErrors ==
    {Raise("TektronixScopeError"), Raise("TypeError"), Raise("ValueError")}

\* C14: a setter of the scope or of the PSU that rejects its argument has
\* made no transport operation, neither a write nor a query, in every
\* driver state including a fresh one.
C14_RejectBeforeIO ==
    /\ (scall.method \in ScopeSetters /\ scall.result \in ArgumentErrors)
           => scall.log = <<>>
    /\ (pcall.method \in PsuSetters /\ pcall.result \in ArgumentErrors)
           => pcall.log = <<>>

\* The forms of channel k: the integer (True is the integer 1), its text
\* and the name.
ChannelForms(k) ==
    {PyInt(k), PyStr(IntText(k)), PyStr(ChannelText(k))} \cup
    (IF k = 1 THEN {PyBool(TRUE)} ELSE {})

\* C15: with a detected channel count n (2 or 4), channel_name gives 'CHk'
\* for the integer k, the text 'k' and the text 'CHk' for every 1 <= k <= n,
\* and fails with TektronixScopeError for every other input; on a
\* 2-channel instrument 1, '1' and 'CH1' give 'CH1' and 3 fails.
C15_ChannelName ==
    scall.method = "channel_name" =>
        LET n == IF Ch4Key \in scope.dico.keys THEN 4 ELSE 2
            name == scall.args[1]
            ks == {k \in 1..n : name \in ChannelForms(k)}
        IN  /\ n = Len(inst.setup) - 1
            /\ \A k \in ks : scall.result = Return(PyStr(ChannelText(k)))
            /\ ks = {} => scall.result = Raise("TektronixScopeError")

\* A non-booster call that names no window: no data_start, data_stop, t0
\* or DeltaT.
PlainRead ==
    /\ IsRead
    /\ ~BoosterInEffect
    /\ scall.args.data_start = PyNone
    /\ scall.args.data_stop = PyNone
    /\ scall.args.t0 = PyNone
    /\ scall.args.DeltaT = PyNone

\* The channels the instrument has, as the integers the call may name.
InstrumentChannels == 1..(Len(inst.setup) - 1)

\* The position of an operation in the call's log, 0 when it is not there.
LogPos(kind, c) ==
    IF \E i \in DOMAIN scall.log : scall.log[i] = <<kind, c>>
    THEN CHOOSE i \in DOMAIN scall.log : scall.log[i] = <<kind, c>>
    ELSE 0

Sent(kind, c) == LogPos(kind, c) # 0

\* C16: a non-booster read_data_one_channel call for a channel of the
\* instrument that is not enabled fails with TektronixScopeError and never
\* sends the curve query.
C16_DisabledChannelRefused ==
    \A k \in InstrumentChannels :
        (PlainRead /\ scall.args.channel = PyInt(k)
                   /\ ChannelText(k) \notin inst.sel) =>
            /\ scall.result = Raise("TektronixScopeError")
            /\ ~Sent("ask_raw", <<"CURVE?">>)

\* C17: in a non-booster call without data_stop, t0 and DeltaT that gets to
\* read the stop index back, the stop index requested from the instrument
\* is the record length: DATA:STOP with the record length has been written
\* before the readback.
C17_StopDefaultsToRecordLength ==
    (IsRead /\ ~BoosterInEffect
            /\ scall.args.data_stop = PyNone
            /\ scall.args.t0 = PyNone /\ scall.args.DeltaT = PyNone
            /\ Sent("ask", <<"DATA:STOP?">>)) =>
        /\ Sent("write", <<"DATA:STOP ">> \o inst.recordlength)
        /\ LogPos("write", <<"DATA:STOP ">> \o inst.recordlength)
              < LogPos("ask", <<"DATA:STOP?">>)

\* floor(a / b) for b > 0.
FloorDiv(a, b) == a \div b

\* C18: with t0 and DeltaT and no explicit index, the indices the call
\* resolves and pushes are start = floor((t0 - x0)/dx) + 1 and
\* stop = floor((t0 + DeltaT - x0)/dx), also for t0 < x0.
C18_WindowIsFloor ==
    (IsRead /\ scall.window # Unset
            /\ scall.args.t0 # PyNone /\ scall.args.DeltaT # PyNone) =>
        LET x0 == FloatOf(inst.xzero)
            dx == FloatOf(inst.xin)
            t0 == scall.args.t0
            DeltaT == scall.args.DeltaT
            e == UnitExp(<<t0, DeltaT, x0, dx>>)
        IN  scall.window =
              <<PyInt(FloorDiv(Scaled(t0, e) - Scaled(x0, e), Scaled(dx, e)) + 1),
                PyInt(FloorDiv(Scaled(t0, e) + Scaled(DeltaT, e) - Scaled(x0, e),
                               Scaled(dx, e)))>>

\* The operations a booster call may make: the data-source selection and
\* the curve query.
BoosterOperation(entry) ==
    \/ entry[1] = "write" /\ entry[2][1] = "DAT:SOUR "
    \/ entry = <<"ask_raw", <<"CURVE?">>>>
    \/ entry = <<"ask", <<"CURVE?">>>>

CachedValues(obj) ==
    <<obj.data_start, obj.data_stop, obj.offset, obj.scale, obj.x_0,
      obj.delta_x>>

\* C20: a read_data_one_channel call with booster mode in effect sends the
\* instrument only the data-source selection and the curve query and
\* leaves the cached data_start, data_stop, offset, scale, x_0 and delta_x
\* as they were.
C20_BoosterSendsOnlySourceAndCurve ==
    BoosterInEffect =>
        /\ \A i \in DOMAIN scall.log : BoosterOperation(scall.log[i])
        /\ CachedValues(scope) = CachedValues(scall.pre)

\* The data-source selections a call sent.
SourceSelections ==
    {i \in DOMAIN scall.log :
        scall.log[i][1] = "write" /\ scall.log[i][2][1] = "DAT:SOUR "}

\* C21: a read_data_one_channel call with channel=None and no window
\* arguments sends no data-source selection and completes: it returns the
\* waveform of the data source the instrument already had.
C21_NoneKeepsChannel ==
    (PlainRead /\ scall.args.channel = PyNone) =>
        /\ SourceSelections = {}
        /\ scall.result.kind = "return"

\* C23: when read_data_one_channel runs with booster mode in effect, the
\* driver it starts from holds data_start, data_stop, offset, scale, x_0 and
\* delta_x, cached by an earlier acquisition: a booster=True call after
\* only failed acquisitions does not run in booster mode.
C23_BoosterHasCache ==
    BoosterInEffect =>
        \A i \in DOMAIN CachedValues(scall.pre) :
            CachedValues(scall.pre)[i] # Unset

\* C27: every string channel_name returns is 'CHk' for a channel k of the
\* instrument, and a number that is no integer of 1..n (0, a negative
\* number, a non-integer) is refused with TektronixScopeError.
C27_ChannelNameExists ==
    scall.method = "channel_name" =>
        LET name == scall.args[1]
        IN  /\ scall.result.kind = "return" =>
                \E k \in InstrumentChannels :
                    scall.result = Return(PyStr(ChannelText(k)))
            /\ (IsNumber(name) /\ \A k \in InstrumentChannels :
                                      ~NumberEqual(name, PyInt(k))) =>
                scall.result = Raise("TektronixScopeError")

\* The channels of the facade that are active in the attributes o.
ActiveChannels(o) ==
    (IF o._channel_one_active THEN {1} ELSE {}) \cup
    (IF o._channel_two_active THEN {2} ELSE {})

\* C22: the Oscilloscope facade never has sweep rate 12 with both channels
\* active, and an assignment of sweep rate 12 made while exactly one
\* channel is active is accepted.
C22_Rate12OneChannel ==
    /\ ~(osc._sweep_rate = 12 /\ ActiveChannels(osc) = {1, 2})
    /\ (/\ ocall.method = "sweep_rate"
        /\ ocall.arg = PyInt(12)
        /\ Cardinality(ActiveChannels(ocall.pre)) = 1) =>
            ocall.result = Return(PyNone)

\* The sweep threads that have been started and have not ended.
RunningSweeps == {t \in SweepThreads : sweeps[t] \notin {"unborn", "done"}}

\* C30: once a disable() call has ended it has returned and no sweep thread
\* started by an earlier enable() is running, whatever enable() and
\* disable() calls came before.
C30_DisableStopsSweeps ==
    (ocall.method = "disable" /\ opc = "idle") =>
        /\ ocall.result = Return(PyNone)
        /\ RunningSweeps = {}

\* C28: a pin is held in the plate's PinRegister exactly when a get_<cat>
\* call for it returned a pin object; a call that raises leaves the
\* register as it was; a call for a pin the board accepts, inside the
\* register's range and not held, returns a pin object.
C28_RegisterMatchesIssued ==
    /\ \A cat \in Categories, pin \in PinArgs :
           InList(pin, pins[cat]) <=> <<cat, pin>> \in issued
    /\ gcall.method # "none" =>
        /\ gcall.result.kind = "raise" => pins = gcall.pre
        /\ (/\ gcall.verified
            /\ PinLow(gcall.method) <= gcall.pin
            /\ gcall.pin <= PinHigh(gcall.method)
            /\ ~InList(gcall.pin, gcall.pre[gcall.method])) =>
                gcall.result.kind = "return"

\* A DeltaPSU call made while the serial link opened by connect() is open.
CalledConnected == pcall.method # "none" /\ pcall.pre._serial = "open"

\* C29: while the link opened by connect() is open, a second connect()
\* opens no further link, a set_voltage or set_current command is written
\* to the link and does not fail as not connected, and disconnect() closes
\* the link.
C29_ConnectedUntilDisconnect ==
    CalledConnected =>
        /\ pcall.method = "connect" => pcall.log = <<>>
        /\ pcall.method \in {"set_voltage", "set_current"} =>
            /\ pcall.result # Raise("ConnectionError")
            /\ (pcall.result.kind = "return" =>
                    \E i \in DOMAIN pcall.log : pcall.log[i][1] = "write")
        /\ pcall.method = "disconnect" =>
            /\ pcall.log = <<<<"close">>>>
            /\ psu._serial = "none"

\* The bytes that parse_number decodes as the text t: a display whose
\* first digit position holds the byte and whose other positions are blank.
BytesFor(t) ==
    {b \in Byte : DisplayText(<<DataMarker, 0, 0, 0, b, 0, 0, 0, 0, 0>>, 4) = t}

\* C24: for every display digit d in 0..9 a byte in 0..255 is decoded by
\* parse_number as d and another byte as d followed by a decimal point.
C24_EveryDigitHasByte ==
    out.fn = "parse_number" =>
        \A d \in Digits : BytesFor(<<d>>) # {} /\ BytesFor(<<d, ".">>) # {}

\* The digit positions of a frame whose byte the table maps to a letter code.
LetterPositions(char) ==
    {ii \in 4..8 : /\ At(char, ii) \in DOMAIN keys
                   /\ \E c \in DOMAIN keys[At(char, ii)] :
                          keys[At(char, ii)][c] \notin Digits \cup {"."}}

\* C25: parse_number returns a number only when no byte in positions 4..8
\* decodes to a letter code; with a letter code on the display the result
\* is the raw string.
C25_LetterCodeGivesString ==
    (out.fn = "parse_number" /\ Len(frame) = 10 /\ LetterPositions(frame) # {}) =>
        /\ out.res.kind = "return"
        /\ out.res.val.tag = "str"

\* C26: get_complete_state and get_value on a connected TTI1604 do not
\* raise while decoding what the read gave, for every read of 0 to 10
\* bytes: the step that decodes the bytes ends the call with a return.
C26_GetDecodesEveryRead ==
    [][\A t \in Threads :
          (pc[t] = "gs_parse" /\ pc'[t] = "idle") => result'[t].kind = "return"]_vars

=============================================================================
